---- MODULE Spec2Model ----
(***************************************************************************)
(* A model of tran: the PNG chunk codec (src/src/png.rs), the colour       *)
(* transform helpers (src/src/lib.rs), the configuration parser and        *)
(* writer (src/src/config.rs) and the standalone binary's run over its     *)
(* target files (src/src/main.rs).                                         *)
(*                                                                         *)
(* Bytes are integers 0..255.  Strings are sequences of one-character      *)
(* strings, so that slicing, splitting and parsing are computed as the     *)
(* code computes them.  A u32 that may exceed 31 bits (the CRC register)   *)
(* is the sequence of its four bytes, most significant first.              *)
(***************************************************************************)
EXTENDS Integers, Sequences, FiniteSets, TLC

VARIABLES
    fs,          \* the file system: path -> content (a byte sequence) or NoFile
    fs0,         \* the file system as it was when recolor_png was called
    history,     \* the file systems that the earlier calls were made on, in order
    source,      \* recolor_png: the source path
    target,      \* recolor_png: the target path
    transform,   \* recolor_png: the ColorTransform
    file,        \* recolor_png: the in-memory buffer (let mut file)
    png,         \* recolor_png: the number of bytes the iterator has yielded
    pc,          \* recolor_png: the position in the function
    result,      \* recolor_png: "none" while running, then Ok or the error kind
    plte,        \* the PLTE chunks whose handling completed, in order
    writes,      \* the number of std::fs::write calls made
    config_file, \* the config file: its text, or NoText
    chars,       \* parse_config: the characters the loop has yet to take
    locals,      \* parse_config: state, section, buff, mode, current_color, ...
    configs,     \* the Configs that the parse_config calls returned, in order
    cpc,         \* the position in parse_config and write_config
    cresult,     \* parse_config: "none" while running, then Ok or the error kind
    hex_str,     \* the string given to Color::try_from_hex_str first
    parsed,      \* what the calls of Color::try_from_hex_str returned, in order
    displayed,   \* what formatting the parsed colours gave, in order
    gradient,    \* the GradientConfig that get_colors_scaled is called on
    scaled,      \* what get_colors_scaled returned: <<"None">> before the call
    disk,        \* main: file name -> the bytes of the file, or NoFile
    readonly,    \* main: the names of the files that cannot be written
    main_config, \* main: let mut config (target_files, current_color, colors)
    stored_config, \* main: the Config that the config file holds
    main_color,  \* main: new_color, the colour drawn from config.colors
    cursor,      \* main: the number of the target the loop is at, from 1
    stderr,      \* main: what eprintln! printed, in order
    config_writes, \* main: the number of writes of the config file
    mpc,         \* main: the position in the function
    mresult      \* main: "none" while running, then Ok, the error kind or Panic

pngvars == <<fs, fs0, history, source, target, transform, file, png, pc, result, plte,
             writes>>

cfgvars == <<config_file, chars, locals, configs, cpc, cresult>>

colvars == <<hex_str, parsed, displayed, gradient, scaled>>

mainvars == <<disk, readonly, main_config, stored_config, main_color, cursor, stderr,
              config_writes, mpc, mresult>>

vars == <<pngvars, cfgvars, colvars, mainvars>>

\* What the steps of recolor_png, of the configuration cycle, of the colour
\* functions and of main leave alone.
notpng == <<cfgvars, colvars, mainvars>>

notcfg == <<pngvars, colvars, mainvars>>

notcol == <<pngvars, cfgvars, mainvars>>

notmain == <<pngvars, cfgvars, colvars>>

\* A path that holds no file, and a config path that holds none: neither
\* is a sequence of bytes or of characters.
NoFile == <<-1>>

NoText == <<"">>

Min(a, b) == IF a < b THEN a ELSE b

(***************************************************************************)
(* Bounds of the model.                                                    *)
(***************************************************************************)
MaxPalette == 2      \* palette entries per PLTE chunk
MaxPairs == 2        \* pairs of a Map transform

(***************************************************************************)
(* Strings.                                                                *)
(***************************************************************************)
HexDigits == {"0", "1", "2", "3", "4", "5", "6", "7", "8", "9",
              "a", "b", "c", "d", "e", "f", "A", "B", "C", "D", "E", "F"}

\* char::to_digit(16)
HexVal(c) ==
    CASE c = "0" -> 0 [] c = "1" -> 1 [] c = "2" -> 2 [] c = "3" -> 3
      [] c = "4" -> 4 [] c = "5" -> 5 [] c = "6" -> 6 [] c = "7" -> 7
      [] c = "8" -> 8 [] c = "9" -> 9
      [] c \in {"a", "A"} -> 10 [] c \in {"b", "B"} -> 11
      [] c \in {"c", "C"} -> 12 [] c \in {"d", "D"} -> 13
      [] c \in {"e", "E"} -> 14 [] c \in {"f", "F"} -> 15

\* The number a digit string denotes, modulo m (the digits are all valid).
RECURSIVE RadixMod(_, _, _, _)
RadixMod(s, radix, m, acc) ==
    IF s = <<>> THEN acc
    ELSE RadixMod(Tail(s), radix, m, (acc * radix + HexVal(Head(s))) % m)

RECURSIVE StripZeros(_)
StripZeros(s) == IF s # <<>> /\ Head(s) = "0" THEN StripZeros(Tail(s)) ELSE s

\* u32::from_str_radix, after the sign: the empty string and any character
\* that is no digit are errors, and so is a value above u32::MAX (more than
\* eight significant digits).  The value is kept modulo 2^24, which is all
\* its callers read.
U32FromDigits(digits) ==
    IF digits = <<>> \/ \E i \in 1..Len(digits) : digits[i] \notin HexDigits
    THEN [ok |-> FALSE, low24 |-> 0]
    ELSE IF Len(StripZeros(digits)) > 8
    THEN [ok |-> FALSE, low24 |-> 0]
    ELSE [ok |-> TRUE, low24 |-> RadixMod(digits, 16, 16777216, 0)]

\* u32::from_str_radix(s, 16): a leading '+' is accepted.
U32FromHex(s) == U32FromDigits(IF s # <<>> /\ Head(s) = "+" THEN Tail(s) ELSE s)

\* The masks and shifts of hex_to_bytes on the parsed u32.
MaskedBytes(p) ==
    IF ~p.ok THEN [ok |-> FALSE, panic |-> FALSE, bytes |-> <<0, 0, 0>>]
    ELSE [ok |-> TRUE, panic |-> FALSE,
          bytes |-> <<(p.low24 \div 65536) % 256, (p.low24 \div 256) % 256, p.low24 % 256>>]

\* hex_to_bytes, ColorMap::new_color_bytes and ColorMap::current_color_bytes
\* (three copies of the same body): &hex[1..] parsed as a u32, then masked.
\* An empty string makes the slice panic.
hex_to_bytes(hex) ==
    IF hex = <<>> THEN [ok |-> FALSE, panic |-> TRUE, bytes |-> <<0, 0, 0>>]
    ELSE MaskedBytes(U32FromHex(Tail(hex)))

new_color_bytes(trans) == hex_to_bytes(trans.new_color)

current_color_bytes(trans) == hex_to_bytes(trans.current_color)

(***************************************************************************)
(* 32-bit registers, as their four bytes, most significant first.          *)
(***************************************************************************)
\* (n as u32), for a byte n.
U32OfByte(n) == <<0, 0, 0, n>>

\* ((x >> (8 * k)) & 0xFF) as u8
ByteOf(x, k) == x[4 - k]

RECURSIVE XorByte(_, _)
XorByte(a, b) ==
    IF a = 0 THEN b
    ELSE IF b = 0 THEN a
    ELSE ((a + b) % 2) + 2 * XorByte(a \div 2, b \div 2)

Xor(x, y) == <<XorByte(x[1], y[1]), XorByte(x[2], y[2]),
               XorByte(x[3], y[3]), XorByte(x[4], y[4])>>

\* x >> 1
Shr1(x) == <<x[1] \div 2,
             (x[1] % 2) * 128 + x[2] \div 2,
             (x[2] % 2) * 128 + x[3] \div 2,
             (x[3] % 2) * 128 + x[4] \div 2>>

\* x >> 8
Shr8(x) == <<0, x[1], x[2], x[3]>>

AllOnes == <<255, 255, 255, 255>>               \* 0xffffffff

(***************************************************************************)
(* f64 arithmetic of the gradient interpolation.  Operands are u8 values,  *)
(* so a quotient and a product are computed exactly on bit sequences (most *)
(* significant bit first) and rounded to the 53 significant bits of an f64 *)
(* (round to nearest, ties to even), as the hardware does.                 *)
(***************************************************************************)
F64_MANTISSA_DIGITS == 53

FRAC_BYTES == 8      \* bytes of a quotient's fraction computed before rounding

\* n as `width` bits, most significant first.
IntBits(n, width) == [i \in 1..width |-> (n \div (2 ^ (width - i))) % 2]

RECURSIVE BitsToInt(_, _)
BitsToInt(bits, acc) ==
    IF bits = <<>> THEN acc ELSE BitsToInt(Tail(bits), 2 * acc + Head(bits))

StripLeadingZeroBits(bits) ==
    LET ones == {i \in 1..Len(bits) : bits[i] = 1}
    IN  IF ones = {} THEN <<>>
        ELSE SubSeq(bits, CHOOSE i \in ones : \A j \in ones : i <= j, Len(bits))

\* The first 8 * n fraction bits of r / c (r < c), eight at a time, and the
\* remainder left.
RECURSIVE FracBits(_, _, _, _)
FracBits(r, c, n, acc) ==
    IF n = 0 \/ r \notin 0..(c - 1) THEN [bits |-> acc, rem |-> r]
    ELSE FracBits((256 * r) % c, c, n - 1, acc \o IntBits((256 * r) \div c, 8))

\* bits + 1
IncBits(bits) ==
    LET zeros == {i \in 1..Len(bits) : bits[i] = 0}
    IN  IF zeros = {} THEN <<1>> \o [i \in 1..Len(bits) |-> 0]
        ELSE LET last == CHOOSE i \in zeros : \A j \in zeros : i >= j
             IN  [i \in 1..Len(bits) |->
                      IF i < last THEN bits[i] ELSE IF i = last THEN 1 ELSE 0]

\* bits * a + carry for a u8 a, eight bits at a time from the low end; the
\* number of bits is a multiple of eight.
RECURSIVE MulBits(_, _, _, _)
MulBits(bits, a, carry, acc) ==
    IF bits = <<>> \/ carry \notin 0..255 THEN IntBits(carry, 8) \o acc
    ELSE LET d == BitsToInt(SubSeq(bits, Len(bits) - 7, Len(bits)), 0) * a + carry
         IN  MulBits(SubSeq(bits, 1, Len(bits) - 8), a, d \div 256,
                     IntBits(d % 256, 8) \o acc)

\* Rounding to 53 significant bits (round to nearest, ties to even): the
\* mantissa kept and the number of low bits dropped.  sig has no leading
\* zero; sticky tells that the exact value has non-zero bits below sig.
RoundKept(keep, round_bit, sticky, drop) ==
    [m |-> IF round_bit = 1 /\ (sticky \/ keep[F64_MANTISSA_DIGITS] = 1)
           THEN IncBits(keep) ELSE keep,
     drop |-> drop]

RoundSignificant(sig, sticky) ==
    IF Len(sig) <= F64_MANTISSA_DIGITS THEN [m |-> sig, drop |-> 0]
    ELSE RoundKept(SubSeq(sig, 1, F64_MANTISSA_DIGITS),
                   sig[F64_MANTISSA_DIGITS + 1],
                   sticky \/ \E i \in (F64_MANTISSA_DIGITS + 2)..Len(sig) : sig[i] = 1,
                   Len(sig) - F64_MANTISSA_DIGITS)

RoundF64(bits, sticky) == RoundSignificant(StripLeadingZeroBits(bits), sticky)

\* The f64 nearest to int + (the fraction f): 8 integer bits, then f's bits.
F64Quotient(int, f) == RoundF64(IntBits(int, 8) \o f.bits, f.rem # 0)

\* A variant of the cast that wraps instead of saturating.
TruncWrapping(m, frac) ==
    IF Len(m) <= frac THEN 0
    ELSE BitsToInt(SubSeq(m, 1, Len(m) - frac), 0) % 256

\* The integer part of a mantissa m of which the last frac bits are the
\* fraction, cast to u8 (the cast saturates).
TruncToU8(m, frac) ==
    IF Len(m) <= frac THEN 0
    ELSE Min(BitsToInt(SubSeq(m, 1, Len(m) - frac), 0), 255)

F64ProductAsU8(p, q_drop) == TruncToU8(p.m, 8 * FRAC_BYTES - q_drop - p.drop)

\* ((a as f64) * q) as u8: q's mantissa, padded in front to 7 bytes, times a.
F64TimesAsU8(a, q) ==
    F64ProductAsU8(
        RoundF64(MulBits([i \in 1..(56 - Len(q.m)) |-> 0] \o q.m, a, 0, <<>>), FALSE),
        q.drop)

\* (((a as f64) * ((b as f64) / (c as f64))) as u8), for u8 a, b, c: the
\* cast saturates, and NaN (0/0, or 0 * inf) casts to 0.
F64ScaleAsU8(a, b, c) ==
    IF c = 0 THEN (IF b = 0 \/ a = 0 THEN 0 ELSE 255)
    ELSE IF b = 0 \/ a = 0 THEN 0
    ELSE F64TimesAsU8(a, F64Quotient(b \div c, FracBits(b % c, c, FRAC_BYTES, <<>>)))

(***************************************************************************)
(* crc (png.rs): the table-driven CRC-32.                                  *)
(***************************************************************************)
CRC_POLY == <<237, 184, 131, 32>>      \* 0xEDB88320

\* The inner loop that builds crc_table[n]: k rounds left on c.
RECURSIVE crc_table_rounds(_, _)
crc_table_rounds(c, k) ==
    IF k = 0 THEN c
    ELSE crc_table_rounds(IF c[4] % 2 # 0 THEN Xor(CRC_POLY, Shr1(c)) ELSE Shr1(c), k - 1)

\* let mut crc_table: [u32; 256], filled by the loop for n in 0..256
crc_table == [n \in 0..255 |-> crc_table_rounds(U32OfByte(n), 8)]

\* c = crc_table[((c ^ buf[i] as u32) & 0xff)] ^ (c >> 8), for byte i of buf
\* and those after it (the index is one of the table's 256).
RECURSIVE crc_update(_, _, _)
crc_update(c, buf, i) ==
    LET index == ByteOf(Xor(c, U32OfByte(buf[i])), 0)
    IN  IF i > Len(buf) \/ index \notin 0..255 THEN c
        ELSE crc_update(Xor(crc_table[index], Shr8(c)), buf, i + 1)

\* crc without the final complement.
CrcWithoutFinalXor(buf) == crc_update(AllOnes, buf, 1)

\* crc: the register starts at 0xFFFFFFFF and is complemented at the end.
crc(buf) == Xor(crc_update(AllOnes, buf, 1), AllOnes)

(***************************************************************************)
(* PNG constants and read_chunk.                                           *)
(***************************************************************************)
PNG_FORMAT_IDENTIFIER == <<137, 80, 78, 71, 13, 10, 26, 10>>
IHDR_COLOR_TYPE_OFFSET == 9
IHDR == 1229472850       \* 0x49484452
IEND == 1229278788       \* 0x49454E44
PLTE == 1347179589       \* 0x504C5445

\* A variant of the conversion that takes colour type 0 and 4 for a palette.
PngColorTypeGrayAsPalette(value) ==
    CASE value \in {0, 3, 4} -> "Palette"
      [] value = 2 -> "Rgb"
      [] value = 6 -> "Rgba"
      [] OTHER -> "Err"

\* PngColorType::try_from(u8)
PngColorType(value) ==
    CASE value = 0 -> "Grayscale"
      [] value = 2 -> "Rgb"
      [] value = 3 -> "Palette"
      [] value = 4 -> "GrayscaleAlpha"
      [] value = 6 -> "Rgba"
      [] OTHER -> "Err"

\* The bytes that up to four next() calls yield, n bytes having been yielded.
Next4(buf, n) == SubSeq(buf, n + 1, Min(n + 4, Len(buf)))

\* filter_map / enumerate / map / reduce over the bytes that were there: byte
\* number index (from 0) is shifted left by 8 * (3 - index).
RECURSIVE ReduceShifted(_, _, _)
ReduceShifted(bytes, index, acc) ==
    IF index >= Len(bytes) THEN acc
    ELSE ReduceShifted(bytes, index + 1, acc + bytes[index + 1] * (2 ^ (8 * (3 - index))))

NoChunk == [ok |-> FALSE, length |-> 0, chunk_type |-> 0, data |-> 0, crc |-> 0, next |-> 0]

\* read_chunk, once length and chunk_type are read: `length` data bytes and
\* four CRC bytes must follow the n bytes yielded so far.
ReadChunkBody(buf, n, length, chunk_type) ==
    IF n + length > Len(buf) \/ n + length + 4 > Len(buf) THEN NoChunk
    ELSE [ok |-> TRUE, length |-> length, chunk_type |-> chunk_type,
          data |-> n, crc |-> n + length, next |-> n + length + 4]

\* read_chunk, once the length bytes are read.
ReadChunkType(buf, n, lengthBytes, typeBytes) ==
    IF lengthBytes = <<>> \/ typeBytes = <<>> THEN NoChunk
    ELSE ReadChunkBody(buf, Min(n + 4, Len(buf)), ReduceShifted(lengthBytes, 0, 0),
                       ReduceShifted(typeBytes, 0, 0))

\* read_chunk: the chunk as offsets into the buffer (data and crc are the
\* numbers of bytes before the chunk's data and before its CRC), and the
\* number of bytes the iterator has yielded after it.
read_chunk(buf, n) ==
    ReadChunkType(buf, Min(n + 4, Len(buf)), Next4(buf, n),
                  Next4(buf, Min(n + 4, Len(buf))))

(***************************************************************************)
(* recolor_png: the handling of one PLTE chunk.                            *)
(***************************************************************************)
\* The triple whose red byte is byte number p of buf.
Triple(buf, p) == <<buf[p], buf[p + 1], buf[p + 2]>>

\* SetTriple writing one byte early: a variant that touches the byte before
\* the triple, which for a chunk's first triple is the last type byte.
SetTripleBefore(buf, p, t) ==
    [buf EXCEPT ![p - 1] = t[1], ![p] = t[2], ![p + 1] = t[3]]

SetTriple(buf, p, t) == [buf EXCEPT ![p] = t[1], ![p + 1] = t[2], ![p + 2] = t[3]]

IsBlackOrWhite(t) == t = <<0, 0, 0>> \/ t = <<255, 255, 255>>

\* A variant of the collection that skips no triple.
CollectEveryColor(buf, chunk) ==
    [k \in 1..(chunk.length \div 3) |-> chunk.data + 3 * (k - 1) + 1]

\* for _ in 0..chunk.length / 3: the triples pushed to colors, each as the
\* index of its red byte; pure black and pure white are skipped.
CollectColors(buf, chunk) ==
    SelectSeq([k \in 1..(chunk.length \div 3) |-> chunk.data + 3 * (k - 1) + 1],
              LAMBDA p : ~IsBlackOrWhite(Triple(buf, p)))

\* The `?` on a colour string that does not parse (or whose slice panics).
HexError(h) == IF h.panic THEN "Panic" ELSE "ConfigError"

\* A variant of the inner loop that overwrites every colour, matching or not.
RECURSIVE MapEveryColor(_, _, _, _, _)
MapEveryColor(st, cur, new, colors, j) ==
    IF j > Len(colors) \/ ~cur.ok \/ ~new.ok THEN st
    ELSE MapEveryColor([st EXCEPT !.buf = SetTriple(st.buf, colors[j], new.bytes)],
                       cur, new, colors, j + 1)

\* ColorTransform::Map, the inner loop for one pair, from colour number j on;
\* cur and new are the pair's current_color_bytes() and new_color_bytes().
\* st is [buf, err]; the `?` operators return the error at once.
RECURSIVE MapOverColors(_, _, _, _, _)
MapOverColors(st, cur, new, colors, j) ==
    IF st.err # "none" \/ j > Len(colors) THEN st
    ELSE IF ~cur.ok THEN [st EXCEPT !.err = HexError(cur)]
    ELSE IF Triple(st.buf, colors[j]) # cur.bytes
    THEN MapOverColors(st, cur, new, colors, j + 1)
    ELSE IF ~new.ok THEN [st EXCEPT !.err = HexError(new)]
    ELSE MapOverColors([st EXCEPT !.buf = SetTriple(st.buf, colors[j], new.bytes)],
                       cur, new, colors, j + 1)

\* ColorTransform::Map, the outer loop: for trans in map.iter().
RECURSIVE ApplyMap(_, _, _, _)
ApplyMap(st, map, colors, i) ==
    IF st.err # "none" \/ i > Len(map) THEN st
    ELSE ApplyMap(MapOverColors(st, current_color_bytes(map[i]), new_color_bytes(map[i]),
                                colors, 1),
                  map, colors, i + 1)

ChannelSum(t) == t[1] + t[2] + t[3]

\* The orders sort_unstable_by may leave colors in: descending by channel
\* sum, entries of equal sum in any order.
RECURSIVE Arrangements(_)
Arrangements(S) ==
    IF S = {} THEN {<<>>}
    ELSE UNION {{<<x>> \o q : q \in Arrangements(S \ {x})} : x \in S}

SortedOrders(buf, colors) ==
    {[i \in 1..Len(colors) |-> colors[q[i]]] : q \in
        {q \in Arrangements(1..Len(colors)) :
            \A i \in 1..(Len(colors) - 1) :
                ChannelSum(Triple(buf, colors[q[i]])) >= ChannelSum(Triple(buf, colors[q[i + 1]]))}}

\* next_new, from previous_new, next_old and previous_old.
NextNew(previous_new, next_old, previous_old) ==
    <<F64ScaleAsU8(previous_new[1], next_old[1], previous_old[1]),
      F64ScaleAsU8(previous_new[2], next_old[2], previous_old[2]),
      F64ScaleAsU8(previous_new[3], next_old[3], previous_old[3])>>

\* The GeneratedColorMap entries pushed by the loop for i in 1..colors.len().
RECURSIVE GenerateMap(_, _, _, _)
GenerateMap(buf, colors, i, map) ==
    IF i > Len(colors) \/ map = <<>> THEN map
    ELSE GenerateMap(buf, colors, i + 1,
             Append(map, [old_colors |-> Triple(buf, colors[i]),
                          new_colors |-> NextNew(map[i - 1].new_colors,
                                                 Triple(buf, colors[i]),
                                                 Triple(buf, colors[i - 1]))]))

\* The loops that apply the generated map: for trans in map, for color in colors.
RECURSIVE GeneratedOverColors(_, _, _, _)
GeneratedOverColors(buf, trans, colors, j) ==
    IF j > Len(colors) THEN buf
    ELSE GeneratedOverColors(
             IF Triple(buf, colors[j]) = trans.old_colors
             THEN SetTriple(buf, colors[j], trans.new_colors) ELSE buf,
             trans, colors, j + 1)

RECURSIVE ApplyGenerated(_, _, _, _)
ApplyGenerated(buf, map, colors, i) ==
    IF i > Len(map) THEN buf
    ELSE ApplyGenerated(GeneratedOverColors(buf, map[i], colors, 1), map, colors, i + 1)

\* A variant of the Gradient branch without the "No colors" error: with no
\* collected colour the buffer is left as it was.
ApplyGradientOfNothing(buf, seed, colors) ==
    IF ~seed.ok THEN [buf |-> buf, err |-> HexError(seed)]
    ELSE IF colors = <<>> THEN [buf |-> buf, err |-> "none"]
    ELSE [buf |-> ApplyGenerated(
                      buf,
                      GenerateMap(buf, colors, 2,
                                  <<[old_colors |-> Triple(buf, colors[1]),
                                     new_colors |-> seed.bytes]>>),
                      colors, 1),
          err |-> "none"]

\* ColorTransform::Gradient, colors being sorted already and seed being
\* hex_to_bytes(primary).
ApplyGradient(buf, seed, colors) ==
    IF colors = <<>> THEN [buf |-> buf, err |-> "PngFormatError"]
    ELSE IF ~seed.ok THEN [buf |-> buf, err |-> HexError(seed)]
    ELSE [buf |-> ApplyGenerated(
                      buf,
                      GenerateMap(buf, colors, 2,
                                  <<[old_colors |-> Triple(buf, colors[1]),
                                     new_colors |-> seed.bytes]>>),
                      colors, 1),
          err |-> "none"]

\* match transform { ... } on the collected colors; sorted is the order the
\* sort leaves them in (read by Gradient only).
ApplyTransform(buf, tr, colors, sorted) ==
    IF tr.kind = "Map" THEN ApplyMap([buf |-> buf, err |-> "none"], tr.map, colors, 1)
    ELSE ApplyGradient(buf, hex_to_bytes(tr.primary), sorted)

\* The four bytes of a chunk type, most significant first.
TypeBytes(chunk_type) ==
    <<(chunk_type \div 16777216) % 256, (chunk_type \div 65536) % 256,
      (chunk_type \div 256) % 256, chunk_type % 256>>

\* *chunk.crc[0..4] = the bytes of new_crc, most significant first
StoreCrc(buf, chunk, new_crc) ==
    [buf EXCEPT ![chunk.crc + 1] = ByteOf(new_crc, 3),
                ![chunk.crc + 2] = ByteOf(new_crc, 2),
                ![chunk.crc + 3] = ByteOf(new_crc, 1),
                ![chunk.crc + 4] = ByteOf(new_crc, 0)]

\* A variant of the recalculation that takes the CRC of the chunk data
\* without the type bytes.
RecalculateCrcOfData(buf, chunk) ==
    StoreCrc(buf, chunk, crc(SubSeq(buf, chunk.data + 1, chunk.data + chunk.length)))

\* "Recalculate CRC": the CRC of the type bytes and the chunk data.
RecalculateCrc(buf, chunk) ==
    StoreCrc(buf, chunk,
             crc(TypeBytes(chunk.chunk_type)
                 \o SubSeq(buf, chunk.data + 1, chunk.data + chunk.length)))

\* The end of the PLTE branch: the CRC is recalculated unless the transform
\* returned an error.
AfterTransform(st, chunk) ==
    IF st.err # "none" THEN st
    ELSE [buf |-> RecalculateCrc(st.buf, chunk), err |-> "none"]

\* if chunk.chunk_type == PLTE { ... }
HandlePlte(buf, chunk, tr, sorted) ==
    AfterTransform(ApplyTransform(buf, tr, CollectColors(buf, chunk), sorted), chunk)

(***************************************************************************)
(* config.rs: colours, sections and modes.                                 *)
(***************************************************************************)
\* The texts that config.rs compares with and writes.
Str_mode == <<"m", "o", "d", "e">>
Str_colors == <<"c", "o", "l", "o", "r", "s">>
Str_target_files == <<"t", "a", "r", "g", "e", "t", "_", "f", "i", "l", "e", "s">>
Str_current_color == <<"c", "u", "r", "r", "e", "n", "t", "_", "c", "o", "l", "o", "r">>
Str_overwrite == <<"o", "v", "e", "r", "w", "r", "i", "t", "e">>
Str_map == <<"m", "a", "p">>
Str_gradient == <<"g", "r", "a", "d", "i", "e", "n", "t">>
Str_true == <<"t", "r", "u", "e">>
Str_false == <<"f", "a", "l", "s", "e">>

\* Section::try_from(&str)
SectionFrom(value) ==
    CASE value = Str_mode -> "Mode"
      [] value = Str_colors -> "Colors"
      [] value = Str_target_files -> "TargetFiles"
      [] value = Str_current_color -> "CurrentColor"
      [] value = Str_overwrite -> "Overwrite"
      [] OTHER -> "Err"

\* Mode::try_from(&str)
ModeFrom(value) ==
    CASE value = Str_map -> "Map"
      [] value = Str_gradient -> "Gradient"
      [] OTHER -> "Err"

\* u8::from_str_radix, after the sign: the digits of a two-character slice
\* never exceed u8::MAX, longer ones may.
U8FromDigits(digits) ==
    IF digits = <<>> \/ \E i \in 1..Len(digits) : digits[i] \notin HexDigits
    THEN [ok |-> FALSE, value |-> 0]
    ELSE IF Len(StripZeros(digits)) > 2
    THEN [ok |-> FALSE, value |-> 0]
    ELSE [ok |-> TRUE, value |-> RadixMod(digits, 16, 256, 0)]

\* u8::from_str_radix(s, 16): a leading '+' is accepted.
U8FromHex(s) == U8FromDigits(IF s # <<>> /\ Head(s) = "+" THEN Tail(s) ELSE s)

\* Color::from_bytes of the three parsed channels; `?` on each.
ColorFromChannels(r, g, b) ==
    IF r.ok /\ g.ok /\ b.ok
    THEN [ok |-> TRUE, color |-> <<r.value, g.value, b.value>>]
    ELSE [ok |-> FALSE, color |-> <<0, 0, 0>>]

\* Color::try_from_hex_str: six characters, or seven of which the first is
\* skipped (whatever it is); lengths are in bytes, the characters ASCII.
try_from_hex_str(s) ==
    IF Len(s) = 6
    THEN ColorFromChannels(U8FromHex(SubSeq(s, 1, 2)), U8FromHex(SubSeq(s, 3, 4)),
                           U8FromHex(SubSeq(s, 5, 6)))
    ELSE IF Len(s) = 7
    THEN ColorFromChannels(U8FromHex(SubSeq(s, 2, 3)), U8FromHex(SubSeq(s, 4, 5)),
                           U8FromHex(SubSeq(s, 6, 7)))
    ELSE [ok |-> FALSE, color |-> <<0, 0, 0>>]

LowerHex == <<"0", "1", "2", "3", "4", "5", "6", "7", "8", "9", "a", "b", "c", "d", "e", "f">>

UpperHex == <<"0", "1", "2", "3", "4", "5", "6", "7", "8", "9", "A", "B", "C", "D", "E", "F">>

\* A variant of the channel format in uppercase: {:02X}.
Hex02Upper(n) == <<UpperHex[(n \div 16) + 1], UpperHex[(n % 16) + 1]>>

\* {:02x}
Hex02(n) == <<LowerHex[(n \div 16) + 1], LowerHex[(n % 16) + 1]>>

\* impl Display for Color: "#{:02x}{:02x}{:02x}"
ColorToString(c) == <<"#">> \o Hex02(c[1]) \o Hex02(c[2]) \o Hex02(c[3])

DecDigits == {"0", "1", "2", "3", "4", "5", "6", "7", "8", "9"}

\* usize::MAX on a 64-bit target, as decimal digits.
USIZE_MAX == <<"1", "8", "4", "4", "6", "7", "4", "4", "0", "7", "3", "7", "0", "9", "5", "5", "1", "6", "1", "5">>

\* Whether the digit string a denotes at most what b denotes; neither has a
\* leading zero.
DigitsAtMost(a, b) ==
    \/ Len(a) < Len(b)
    \/ /\ Len(a) = Len(b)
       /\ \A i \in 1..Len(a) :
              (\A j \in 1..(i - 1) : a[j] = b[j]) => HexVal(a[i]) <= HexVal(b[i])

\* usize::from_str_radix, after the sign.  The value is kept as its decimal
\* digits without leading zeros (zero is the empty sequence), since it may
\* take 64 bits.
UsizeFromDigits(digits) ==
    IF digits = <<>> \/ \E i \in 1..Len(digits) : digits[i] \notin DecDigits
    THEN [ok |-> FALSE, value |-> <<>>]
    ELSE IF ~DigitsAtMost(StripZeros(digits), USIZE_MAX)
    THEN [ok |-> FALSE, value |-> <<>>]
    ELSE [ok |-> TRUE, value |-> StripZeros(digits)]

\* usize::from_str_radix(c, 10): a leading '+' is accepted.
UsizeFromDec(c) == UsizeFromDigits(IF c # <<>> /\ Head(c) = "+" THEN Tail(c) ELSE c)

\* The weight 1.
One == <<"1">>

\* The places of the character c in s, and the k-th of them.
Places(s, c) == {i \in 1..Len(s) : s[i] = c}

NthPlace(P, k) == CHOOSE i \in P : Cardinality({j \in P : j < i}) = k - 1

\* Token k of n + 1, the separators being at the places P.
Token(s, P, k) ==
    SubSeq(s, (IF k = 1 THEN 0 ELSE NthPlace(P, k - 1)) + 1,
              (IF k = Cardinality(P) + 1 THEN Len(s) + 1 ELSE NthPlace(P, k)) - 1)

TokensAt(s, P) == [k \in 1..(Cardinality(P) + 1) |-> Token(s, P, k)]

\* str::split('#'): one token more than there are separators, each possibly
\* empty.
Split(s, c) == TokensAt(s, Places(s, c))

\* entire.map(Color::try_from_hex_str).collect::<Result<Vec<Color>, _>>():
\* every token must parse.
CollectColorsFrom(tokens) ==
    IF \E k \in 1..Len(tokens) : ~try_from_hex_str(tokens[k]).ok
    THEN [ok |-> FALSE, colors |-> <<>>]
    ELSE [ok |-> TRUE, colors |-> [k \in 1..Len(tokens) |-> try_from_hex_str(tokens[k]).color]]

\* A variant of the weight of a line that never reads the first token.
WeightOfNothing(first) == One

\* entire.next().and_then(|c| usize::from_str_radix(c, 10).ok()).unwrap_or(1)
\* on the first token.
WeightOf(first) == IF first.ok THEN first.value ELSE One

Whitespace == {" ", "\n", "\t", "\r"}

\* str::trim(), on the places that hold no whitespace.
TrimAt(s, P) ==
    IF P = {} THEN <<>>
    ELSE SubSeq(s, CHOOSE i \in P : \A j \in P : i <= j, CHOOSE i \in P : \A j \in P : j <= i)

Trim(s) == TrimAt(s, {i \in 1..Len(s) : s[i] \notin Whitespace})

(***************************************************************************)
(* parse_config: the locals, one iteration of the loop over the            *)
(* characters, and what follows the loop.                                  *)
(***************************************************************************)
\* The locals as they are declared before the loop.  colors is <<"None">>,
\* <<"Color", v>> or <<"Map", v>>; current_color is <<"Color", c>> or
\* <<"Map", v>>; err is "none" until a return Err(..) or a `?`.
NewLocals ==
    [state |-> "Start", section |-> "Mode", buff |-> <<>>, mode |-> "None",
     current_color |-> <<"Color", <<0, 0, 0>>>>, colors |-> <<"None">>,
     target_files |-> <<>>, overwrite |-> FALSE, weights |-> <<>>, err |-> "none"]

Fail(l) == [l EXCEPT !.err = "ConfigError"]

\* mode = Some(buff.as_str().try_into()?); buff.clear();
StoreMode(l, m) ==
    IF m = "Err" THEN Fail(l) ELSE [l EXCEPT !.mode = m, !.buff = <<>>]

\* Mode::Gradient in the loop: v.push(color) or colors = Some(vec![color]),
\* the weight having been pushed before the colour is parsed.
PushGradientColor(l, w, tokens, c) ==
    IF l.colors[1] = "Map" THEN Fail(l)
    ELSE IF Len(tokens) < 2 \/ ~c.ok THEN Fail([l EXCEPT !.weights = Append(@, w)])
    ELSE [l EXCEPT !.weights = Append(@, w),
                   !.colors = IF l.colors[1] = "None" THEN <<"Color", <<c.color>>>>
                              ELSE <<"Color", Append(l.colors[2], c.color)>>,
                   !.buff = <<>>]

\* Section::Colors under Mode::Gradient, in the loop.
StoreGradientColor(l, tokens) ==
    PushGradientColor(l, WeightOf(UsizeFromDec(tokens[1])), tokens,
                      IF Len(tokens) < 2 THEN [ok |-> FALSE, color |-> <<0, 0, 0>>]
                      ELSE try_from_hex_str(tokens[2]))

\* v.push(color_map) or colors = Some(ColorOrMapVec::Map(vec![color_map])).
PushColorMap(l, row) ==
    IF ~row.ok \/ l.colors[1] = "Color" THEN Fail(l)
    ELSE [l EXCEPT !.colors = IF l.colors[1] = "None" THEN <<"Map", <<row.colors>>>>
                              ELSE <<"Map", Append(l.colors[2], row.colors)>>,
                   !.buff = <<>>]

\* Section::Colors under Mode::Map, in the loop: the first token is the
\* weight, the others are the row.
StoreMapColors(l, tokens) ==
    PushColorMap([l EXCEPT !.weights = Append(@, WeightOf(UsizeFromDec(tokens[1])))],
                 CollectColorsFrom(Tail(tokens)))

\* Section::CurrentColor: the whole buffer is one colour under
\* Mode::Gradient; under Mode::Map every token is a colour and the buffer
\* is not cleared.
SetCurrentColor(l, c) ==
    IF ~c.ok THEN Fail(l)
    ELSE [l EXCEPT !.current_color = <<"Color", c.color>>, !.buff = <<>>]

SetCurrentColors(l, row) ==
    IF ~row.ok THEN Fail(l) ELSE [l EXCEPT !.current_color = <<"Map", row.colors>>]

\* A variant that reads a current colour met before any mode as a gradient
\* one.
StoreCurrentColorAsGradient(l) ==
    CASE l.mode \in {"None", "Gradient"} -> SetCurrentColor(l, try_from_hex_str(l.buff))
      [] l.mode = "Map" -> SetCurrentColors(l, CollectColorsFrom(Split(l.buff, "#")))

StoreCurrentColor(l) ==
    CASE l.mode = "None" -> Fail(l)
      [] l.mode = "Gradient" -> SetCurrentColor(l, try_from_hex_str(l.buff))
      [] l.mode = "Map" -> SetCurrentColors(l, CollectColorsFrom(Split(l.buff, "#")))

\* Section::TargetFiles in the loop: target_files.push(buff) and a new buff.
StoreTargetFile(l) == [l EXCEPT !.target_files = Append(@, l.buff), !.buff = <<>>]

\* Section::Overwrite in the loop: only "true" changes the flag.
StoreOverwrite(l) ==
    [l EXCEPT !.overwrite = IF l.buff = Str_true THEN TRUE ELSE @, !.buff = <<>>]

\* ParseState::Text on '\n': "Add contents from buff to propper storage".
StoreLine(l) ==
    CASE l.section = "Mode" -> StoreMode(l, ModeFrom(l.buff))
      [] l.section = "Colors" /\ l.mode = "None" -> Fail(l)
      [] l.section = "Colors" /\ l.mode = "Gradient" ->
            StoreGradientColor(l, Split(l.buff, "#"))
      [] l.section = "Colors" /\ l.mode = "Map" -> StoreMapColors(l, Split(l.buff, "#"))
      [] l.section = "CurrentColor" -> StoreCurrentColor(l)
      [] l.section = "TargetFiles" -> StoreTargetFile(l)
      [] l.section = "Overwrite" -> StoreOverwrite(l)

\* state = ParseState::NewLine, unless the line returned an error.
ToNewLine(l) == IF l.err # "none" THEN l ELSE [l EXCEPT !.state = "NewLine"]

\* ParseState::BraceOpen on ']': section = buff.as_str().try_into()?
CloseBrace(l, s) ==
    IF s = "Err" THEN Fail(l)
    ELSE [l EXCEPT !.section = s, !.buff = <<>>, !.state = "BraceClosed"]

\* A variant of the iteration that skips what precedes the first '['.
ParseStepSkippingToBrace(l, char) ==
    CASE l.state = "Start" ->
            IF char # "[" THEN l ELSE [l EXCEPT !.state = "BraceOpen"]
      [] l.state = "BraceOpen" ->
            IF char = "]" THEN CloseBrace(l, SectionFrom(l.buff))
            ELSE [l EXCEPT !.buff = Append(@, char)]
      [] l.state = "BraceClosed" ->
            IF char # "\n" THEN Fail(l) ELSE [l EXCEPT !.state = "NewLine"]
      [] l.state = "Text" ->
            IF char = "\n" THEN ToNewLine(StoreLine(l))
            ELSE [l EXCEPT !.buff = Append(@, char)]
      [] l.state = "NewLine" ->
            IF char = "[" THEN [l EXCEPT !.state = "BraceOpen"]
            ELSE [l EXCEPT !.buff = Append(@, char), !.state = "Text"]

\* One iteration of `for char in chars`: the match on state.
ParseStep(l, char) ==
    CASE l.state = "Start" ->
            IF char # "[" THEN Fail(l) ELSE [l EXCEPT !.state = "BraceOpen"]
      [] l.state = "BraceOpen" ->
            IF char = "]" THEN CloseBrace(l, SectionFrom(l.buff))
            ELSE [l EXCEPT !.buff = Append(@, char)]
      [] l.state = "BraceClosed" ->
            IF char # "\n" THEN Fail(l) ELSE [l EXCEPT !.state = "NewLine"]
      [] l.state = "Text" ->
            IF char = "\n" THEN ToNewLine(StoreLine(l))
            ELSE [l EXCEPT !.buff = Append(@, char)]
      [] l.state = "NewLine" ->
            IF char = "[" THEN [l EXCEPT !.state = "BraceOpen"]
            ELSE [l EXCEPT !.buff = Append(@, char), !.state = "Text"]

\* After the loop, Section::Colors under Mode::Gradient: the whole buffer is
\* the colour, and no weight is pushed.
FlushGradientColor(l, c) ==
    IF l.colors[1] = "Map" \/ ~c.ok THEN Fail(l)
    ELSE [l EXCEPT !.colors = IF l.colors[1] = "None" THEN <<"Color", <<c.color>>>>
                              ELSE <<"Color", Append(l.colors[2], c.color)>>,
                   !.buff = <<>>]

\* After the loop, Section::Colors.
FlushColors(l) ==
    CASE l.mode = "None" -> Fail(l)
      [] l.mode = "Gradient" -> FlushGradientColor(l, try_from_hex_str(l.buff))
      [] l.mode = "Map" -> PushColorMap(l, CollectColorsFrom(Split(l.buff, "#")))

\* if buff.len() != 0 { match section { ... } }
Flush(l) ==
    IF l.buff = <<>> THEN l
    ELSE CASE l.section = "Mode" -> StoreMode(l, ModeFrom(l.buff))
           [] l.section = "Colors" -> FlushColors(l)
           [] l.section = "CurrentColor" -> StoreCurrentColor(l)
           [] l.section = "TargetFiles" -> [l EXCEPT !.target_files = Append(@, l.buff)]
           [] l.section = "Overwrite" ->
                 [l EXCEPT !.overwrite = IF l.buff = Str_true THEN TRUE ELSE @]

GradientConfig(l) ==
    [variant |-> "GradientConfig", current_color |-> l.current_color[2],
     colors |-> l.colors[2], weights |-> l.weights, target_files |-> l.target_files,
     overwrite |-> l.overwrite]

MapConfig(l) ==
    [variant |-> "MapConfig", current_color |-> l.current_color[2],
     colors |-> l.colors[2], weights |-> l.weights, target_files |-> l.target_files,
     overwrite |-> l.overwrite]

\* What parse_config returns when no Config is built.
NoConfig == [variant |-> "Err"]

\* A variant of the final match that takes missing colours as no colours.
BuildWithoutColors(l) ==
    IF l.err # "none" \/ l.mode = "None" THEN NoConfig
    ELSE IF l.mode = "Gradient" /\ l.current_color[1] = "Color" /\ l.colors[1] # "Map"
    THEN GradientConfig([l EXCEPT !.colors = IF @[1] = "None" THEN <<"Color", <<>>>> ELSE @])
    ELSE IF l.mode = "Map" /\ l.current_color[1] = "Map" /\ l.colors[1] # "Color"
    THEN MapConfig([l EXCEPT !.colors = IF @[1] = "None" THEN <<"Map", <<>>>> ELSE @])
    ELSE NoConfig

\* A variant of the final match that looks at the mode alone.
BuildByModeAlone(l) ==
    IF l.err # "none" \/ l.mode = "None" \/ l.colors[1] = "None" THEN NoConfig
    ELSE IF l.mode = "Gradient" THEN GradientConfig(l)
    ELSE MapConfig(l)

\* A variant of the final match in which map mode takes the current colour
\* as it is, a row or not.
BuildWithAnyCurrent(l) ==
    IF l.err # "none" \/ l.mode = "None" \/ l.colors[1] = "None" THEN NoConfig
    ELSE IF l.mode = "Gradient" /\ l.current_color[1] = "Color" /\ l.colors[1] = "Color"
    THEN GradientConfig(l)
    ELSE IF l.mode = "Map" /\ l.colors[1] = "Map"
    THEN MapConfig(l)
    ELSE NoConfig

\* The final match on (mode, current_color, colors), l being the locals
\* after the flush.
Build(l) ==
    IF l.err # "none" \/ l.mode = "None" \/ l.colors[1] = "None" THEN NoConfig
    ELSE IF l.mode = "Gradient" /\ l.current_color[1] = "Color" /\ l.colors[1] = "Color"
    THEN GradientConfig(l)
    ELSE IF l.mode = "Map" /\ l.current_color[1] = "Map" /\ l.colors[1] = "Map"
    THEN MapConfig(l)
    ELSE NoConfig

\* Config::get_mode
get_mode(config) ==
    CASE config.variant = "GradientConfig" -> Str_gradient
      [] config.variant = "MapConfig" -> Str_map

\* A weight as a number of loop iterations.  The weights that are iterated
\* over have fewer than ten digits: the loop pushes one colour per unit.
UsizeAsCount(w) == RadixMod(w, 10, 1000000000, 0)

\* A variant of the weight lookup that reads every weight as 1.
WeightAlwaysOne(weights, i) == 1

\* match self.weights.get(i) { Some(w) => *w, None => 1 }, i counting from 1
WeightAt(weights, i) == IF i <= Len(weights) THEN UsizeAsCount(weights[i]) ELSE 1

\* for _ in 0..w { output.push(*color) }
PushTimes(output, color, w) == output \o [k \in 1..w |-> color]

\* The loop of GradientConfig::get_colors_scaled from colour i on.
RECURSIVE ScaledFrom(_, _, _)
ScaledFrom(config, i, output) ==
    IF i > Len(config.colors) THEN output
    ELSE IF config.colors[i] = config.current_color
    THEN ScaledFrom(config, i + 1, output)
    ELSE ScaledFrom(config, i + 1,
                    PushTimes(output, config.colors[i], WeightAt(config.weights, i)))

\* GradientConfig::get_colors_scaled
get_colors_scaled(config) == ScaledFrom(config, 1, <<>>)

\* The loop of MapConfig::get_colors_scaled from row i on: no row is
\* skipped.
RECURSIVE MapScaledFrom(_, _, _)
MapScaledFrom(config, i, output) ==
    IF i > Len(config.colors) \/ Len(output) < 0 THEN output
    ELSE MapScaledFrom(config, i + 1,
                       PushTimes(output, config.colors[i], WeightAt(config.weights, i)))

\* MapConfig::get_colors_scaled
map_get_colors_scaled(config) == MapScaledFrom(config, 1, <<>>)

\* No parse_config call is under way.
ConfigIdle ==
    /\ config_file = NoText
    /\ chars = <<>>
    /\ locals = NewLocals
    /\ configs = <<>>
    /\ cpc = "done"
    /\ cresult = "none"

\* GradientConfig with nothing but the default current colour.
EmptyGradient ==
    [variant |-> "GradientConfig", current_color |-> <<0, 0, 0>>, colors |-> <<>>,
     weights |-> <<>>, target_files |-> <<>>, overwrite |-> FALSE]

\* No colour function is being exercised.
ColorIdle ==
    /\ hex_str = <<>>
    /\ parsed = <<>>
    /\ displayed = <<>>
    /\ gradient = EmptyGradient
    /\ scaled = <<"None">>

\* main.rs: struct Config, with nothing in it.
EmptyMainConfig == [target_files |-> <<>>, current_color |-> <<>>, colors |-> <<>>]

\* main is not running.
MainIdle ==
    /\ disk = <<>>
    /\ readonly = {}
    /\ main_config = EmptyMainConfig
    /\ stored_config = EmptyMainConfig
    /\ main_color = <<>>
    /\ cursor = 1
    /\ stderr = <<>>
    /\ config_writes = 0
    /\ mpc = "done"
    /\ mresult = "none"

(***************************************************************************)
(* The inputs of recolor_png that the model explores.                      *)
(***************************************************************************)
Black == <<0, 0, 0>>
White == <<255, 255, 255>>
ColorA == <<17, 34, 51>>            \* #112233
ColorB == <<68, 85, 102>>           \* #445566
ColorC == <<0, 255, 255>>           \* a channel that is 0
ColorD == <<0, 34, 51>>

ColorE == <<7, 200, 200>>          \* with ColorF: a ratio above 1, and 61 / 7
ColorF == <<61, 1, 1>>
ColorG == <<51, 34, 17>>            \* the channel sum of ColorA
ColorH == <<30, 1, 1>>

StrA == <<"#", "1", "1", "2", "2", "3", "3">>
StrB == <<"#", "4", "4", "5", "5", "6", "6">>
StrBlack == <<"#", "0", "0", "0", "0", "0", "0">>
StrBad == <<"#", "1", "1", "2", "2", "3", "g">>
StrSeven == <<"#", "0", "7", "4", "4", "5", "5">>

PaletteColors == {Black, ColorA, ColorB}

RECURSIVE SeqsUpTo(_, _)
SeqsUpTo(S, n) ==
    IF n = 0 THEN {<<>>}
    ELSE LET shorter == SeqsUpTo(S, n - 1)
         IN  shorter \cup {Append(q, x) : q \in {r \in shorter : Len(r) = n - 1}, x \in S}

RECURSIVE Flatten(_)
Flatten(ss) == IF ss = <<>> THEN <<>> ELSE Head(ss) \o Flatten(Tail(ss))

\* Every palette of up to MaxPalette of these colours, two with white, and
\* two whose brightest colour has a channel that is 0.
Palettes ==
    SeqsUpTo(PaletteColors, MaxPalette)
    \cup {<<White>>, <<White, ColorA>>, <<ColorC, ColorA>>, <<ColorD, ColorC>>}

ColorMap(new_color, current_color) ==
    [new_color |-> new_color, current_color |-> current_color]

\* (new, old) pairs: a chain with its reverse, two pairs with the same old
\* colour, black as the old colour, and colour strings that do not parse.
MapPairs == {ColorMap(StrB, StrA), ColorMap(StrA, StrB), ColorMap(StrBlack, StrA),
             ColorMap(StrA, StrBlack), ColorMap(StrBad, StrA), ColorMap(StrB, StrBad)}

MapTransform(map) == [kind |-> "Map", map |-> map, primary |-> <<>>, background |-> <<>>]

GradientTransform(primary, background) ==
    [kind |-> "Gradient", map |-> <<>>, primary |-> primary, background |-> background]

\* The Map transforms list up to MaxPairs different pairs.
Transforms ==
    {MapTransform(m) : m \in {q \in SeqsUpTo(MapPairs, MaxPairs) :
                                 \A i, j \in 1..Len(q) : q[i] = q[j] => i = j}}
    \cup {GradientTransform(p, StrBlack) : p \in {StrB, StrBad}}

\* The transforms tried on the file with two PLTE chunks.
OnePairTransforms ==
    {MapTransform(<<p>>) : p \in MapPairs}
    \cup {GradientTransform(p, StrBlack) : p \in {StrB, StrBad}}

\* The transforms tried on the files that are not read to IEND.
FewTransforms ==
    {MapTransform(<<ColorMap(StrB, StrA)>>), MapTransform(<<ColorMap(StrB, StrBad)>>),
     GradientTransform(StrB, StrBlack)}

\* Palettes of shades for the Gradient transform: a primary that is the
\* darker colour of the palette, channels whose ratio is above 1 or is not
\* a binary fraction, two colours of one channel sum, three shades, and
\* white and black among shades.
ShadePalettes ==
    {<<ColorB, ColorA>>, <<ColorE, ColorF>>, <<ColorF, ColorE>>, <<ColorA, ColorG>>,
     <<ColorH, ColorE, ColorF>>, <<White, ColorF, Black, ColorE>>}

ShadeTransforms == {GradientTransform(p, StrBlack) : p \in {StrA, StrB, StrSeven}}

TypeIHDR == <<73, 72, 68, 82>>
TypePLTE == <<80, 76, 84, 69>>
TypeIEND == <<73, 69, 78, 68>>
TypeTRNS == <<116, 82, 78, 83>>

\* A chunk whose stored CRC is stale (recolor_png never verifies one).
ChunkBytes(type, data) == <<0, 0, 0, Len(data)>> \o type \o data \o <<0, 0, 0, 0>>

IhdrData(color_type) == <<0, 0, 0, 1, 0, 0, 0, 1, 8, color_type, 0, 0, 0>>

IhdrChunk(color_type) == ChunkBytes(TypeIHDR, IhdrData(color_type))

PlteChunk(pal) == ChunkBytes(TypePLTE, Flatten(pal))

IendChunk == ChunkBytes(TypeIEND, <<>>)

PaletteFile(pal) == PNG_FORMAT_IDENTIFIER \o IhdrChunk(3) \o PlteChunk(pal) \o IendChunk

\* Palette files that recolor_png reads to IEND.
WellFormed == {"plain", "rich"}

\* Palettes of files whose PLTE chunk carries its CRC-32, and that CRC.
SoundPalettes ==
    {<<ColorA>>, <<ColorB, ColorA>>, <<ColorA, ColorC, ColorA>>, <<Black, ColorA, White>>}

SoundCrc(pal) ==
    CASE pal = <<ColorA>> -> <<162, 252, 211, 171>>
      [] pal = <<ColorB, ColorA>> -> <<218, 150, 247, 160>>
      [] pal = <<ColorA, ColorC, ColorA>> -> <<11, 231, 74, 26>>
      [] pal = <<Black, ColorA, White>> -> <<18, 200, 53, 199>>

\* A palette file whose PLTE chunk has the CRC-32 of its type and data.
SoundFile(pal) ==
    PNG_FORMAT_IDENTIFIER \o IhdrChunk(3)
    \o <<0, 0, 0, Len(Flatten(pal))>> \o TypePLTE \o Flatten(pal) \o SoundCrc(pal)
    \o IendChunk

\* Files it stops on, or that are not palette images.
Others == {"missing", "bad_signature", "short_signature", "no_ihdr", "short_ihdr",
           "grayscale", "rgb", "grayscale_alpha", "rgba", "invalid_color_type",
           "truncated", "no_iend"}

Variants == WellFormed \cup Others

Inputs ==
    ({"plain"} \X Palettes \X Transforms)
    \cup ({"rich"} \X Palettes \X OnePairTransforms)
    \cup (Others \X Palettes \X FewTransforms)
    \cup ({"plain"} \X ShadePalettes \X ShadeTransforms)
    \cup ({"sound"} \X SoundPalettes \X {MapTransform(<<p>>) : p \in MapPairs})

InputFile(v, pal) ==
    CASE v = "plain" -> PaletteFile(pal)
      [] v = "rich" ->
            \* another chunk, two PLTE chunks, and bytes after IEND
            PNG_FORMAT_IDENTIFIER \o IhdrChunk(3) \o ChunkBytes(TypeTRNS, <<7>>)
            \o PlteChunk(pal) \o PlteChunk(pal) \o IendChunk
            \o PlteChunk(<<ColorA>>) \o <<9>>
      [] v = "sound" -> SoundFile(pal)
      [] v = "missing" -> NoFile
      [] v = "bad_signature" -> [PaletteFile(pal) EXCEPT ![2] = 81]
      [] v = "short_signature" -> SubSeq(PNG_FORMAT_IDENTIFIER, 1, 4)
      [] v = "no_ihdr" -> PNG_FORMAT_IDENTIFIER \o PlteChunk(pal) \o IendChunk
      [] v = "short_ihdr" ->
            PNG_FORMAT_IDENTIFIER \o ChunkBytes(TypeIHDR, <<0, 0, 0, 1, 0, 0, 0, 1, 8>>)
            \o PlteChunk(pal) \o IendChunk
      [] v = "grayscale" ->
            PNG_FORMAT_IDENTIFIER \o IhdrChunk(0) \o PlteChunk(pal) \o IendChunk
      [] v = "rgb" -> PNG_FORMAT_IDENTIFIER \o IhdrChunk(2) \o PlteChunk(pal) \o IendChunk
      [] v = "grayscale_alpha" ->
            PNG_FORMAT_IDENTIFIER \o IhdrChunk(4) \o PlteChunk(pal)
      [] v = "rgba" -> PNG_FORMAT_IDENTIFIER \o IhdrChunk(6) \o PlteChunk(pal) \o IendChunk
      [] v = "invalid_color_type" ->
            PNG_FORMAT_IDENTIFIER \o IhdrChunk(1) \o PlteChunk(pal) \o IendChunk
      [] v = "truncated" -> SubSeq(PaletteFile(pal), 1, Len(PaletteFile(pal)) - 2)
      [] v = "no_iend" -> PNG_FORMAT_IDENTIFIER \o IhdrChunk(3) \o PlteChunk(pal)

\* A palette file up to the end of its IEND chunk.
ToIend(v, pal) ==
    CASE v = "plain" -> PaletteFile(pal)
      [] v = "rich" ->
            PNG_FORMAT_IDENTIFIER \o IhdrChunk(3) \o ChunkBytes(TypeTRNS, <<7>>)
            \o PlteChunk(pal) \o PlteChunk(pal) \o IendChunk

\* The palette files whose bytes end before the end of IEND: the first n
\* bytes, for every n.
CutPalettes == {<<ColorA, ColorB>>}

CutInputs ==
    UNION {{<<v, pal, tr, n>> : tr \in FewTransforms, n \in 0..(Len(ToIend(v, pal)) - 1)} :
             v \in WellFormed, pal \in CutPalettes}

SourcePath == "a.png"
OtherPath == "b.png"
Paths == {SourcePath, OtherPath}

\* What the other path holds when recolor_png is called.
OtherContent == <<1, 2, 3>>

(***************************************************************************)
(* recolor_png, step by step.                                              *)
(***************************************************************************)
\* recolor_png(source, target, transform) is called, the source holding
\* content.
Called(content, tr, tgt) ==
    /\ fs = [p \in Paths |-> IF p = SourcePath THEN content ELSE OtherContent]
    /\ fs0 = fs
    /\ history = <<>>
    /\ source = SourcePath
    /\ target = tgt
    /\ transform = tr
    /\ file = <<>>
    /\ png = 0
    /\ pc = "call"
    /\ result = "none"
    /\ plte = <<>>
    /\ writes = 0
    /\ ConfigIdle
    /\ ColorIdle
    /\ MainIdle

Init ==
    \/ \E in \in Inputs, tgt \in Paths : Called(InputFile(in[1], in[2]), in[3], tgt)
    \/ \E in \in CutInputs, tgt \in Paths :
           Called(SubSeq(ToIend(in[1], in[2]), 1, in[4]), in[3], tgt)

\* return Err(...) or return Ok(()) before the write
Return(r) ==
    /\ result' = r
    /\ pc' = "done"

\* A variant of the opening step that creates (truncates) the target at once.
OpenCreatingTarget ==
    /\ pc = "call"
    /\ fs' = [fs EXCEPT ![target] = <<>>]
    /\ IF fs[source] = NoFile
       THEN Return("FileNotFoundError") /\ UNCHANGED file
       ELSE file' = fs[source] /\ pc' = "signature" /\ UNCHANGED result
    /\ UNCHANGED <<fs0, history, source, target, transform, png, plte, writes>>
    /\ UNCHANGED notpng

\* if !source.is_file() { return Err(FileNotFoundError) }; std::fs::read(&source)
Open ==
    /\ pc = "call"
    /\ IF fs[source] = NoFile
       THEN Return("FileNotFoundError") /\ UNCHANGED file
       ELSE file' = fs[source] /\ pc' = "signature" /\ UNCHANGED result
    /\ UNCHANGED <<fs, fs0, history, source, target, transform, png, plte, writes>>
    /\ UNCHANGED notpng

\* for png_format_identifier_byte in PNG_FORMAT_IDENTIFIER { ... }
CheckSignature ==
    /\ pc = "signature"
    /\ IF \E i \in 1..8 : i > Len(file) \/ file[i] # PNG_FORMAT_IDENTIFIER[i]
       THEN Return("FileReadError") /\ UNCHANGED png
       ELSE png' = 8 /\ pc' = "ihdr" /\ UNCHANGED result
    /\ UNCHANGED <<fs, fs0, history, source, target, transform, file, plte, writes>>
    /\ UNCHANGED notpng

\* The dispatch on the colour type, IHDR having been read.
DispatchColorType(ihdr, color_type) ==
    CASE color_type = "Err" -> Return("FileReadError") /\ UNCHANGED png
      [] color_type \in {"Grayscale", "GrayscaleAlpha"} -> Return("Ok") /\ png' = ihdr.next
      [] color_type \in {"Rgb", "Rgba"} -> Return("FileReadError") /\ png' = ihdr.next
      [] color_type = "Palette" -> png' = ihdr.next /\ pc' = "chunks" /\ UNCHANGED result

\* let ihdr = read_chunk(&mut png)?; its type, and the colour type byte
CheckIhdr(ihdr) ==
    IF ~ihdr.ok \/ ihdr.chunk_type # IHDR \/ ihdr.length <= IHDR_COLOR_TYPE_OFFSET
    THEN Return("FileReadError") /\ UNCHANGED png
    ELSE DispatchColorType(ihdr, PngColorType(file[ihdr.data + IHDR_COLOR_TYPE_OFFSET + 1]))

ReadIhdr ==
    /\ pc = "ihdr"
    /\ CheckIhdr(read_chunk(file, png))
    /\ UNCHANGED <<fs, fs0, history, source, target, transform, file, plte, writes>>
    /\ UNCHANGED notpng

\* The end of the PLTE branch: st is what the transform and the CRC left.
PlteHandled(chunk, st) ==
    /\ file' = st.buf
    /\ png' = chunk.next
    /\ IF st.err # "none"
       THEN Return(st.err) /\ UNCHANGED plte
       ELSE plte' = Append(plte, chunk) /\ UNCHANGED <<pc, result>>

\* A variant of the body that takes the end of the bytes for the end of the
\* chunks.
HandleChunkEndingAtEof(chunk) ==
    IF ~chunk.ok
    THEN pc' = "write" /\ UNCHANGED <<file, png, plte, result>>
    ELSE IF chunk.chunk_type = PLTE
    THEN \E sorted \in SortedOrders(file, CollectColors(file, chunk)) :
             PlteHandled(chunk, HandlePlte(file, chunk, transform, sorted))
    ELSE /\ png' = chunk.next
         /\ pc' = IF chunk.chunk_type = IEND THEN "write" ELSE "chunks"
         /\ UNCHANGED <<file, plte, result>>

\* A variant of the body that, after a chunk that is none of PLTE, IEND and
\* IHDR, starts again from the first chunk.
HandleChunkStartingAgain(chunk) ==
    IF ~chunk.ok
    THEN Return("FileReadError") /\ UNCHANGED <<file, png, plte>>
    ELSE IF chunk.chunk_type = PLTE
    THEN \E sorted \in SortedOrders(file, CollectColors(file, chunk)) :
             PlteHandled(chunk, HandlePlte(file, chunk, transform, sorted))
    ELSE /\ png' = IF chunk.chunk_type \in {IEND, IHDR} THEN chunk.next
                   ELSE Len(PNG_FORMAT_IDENTIFIER)
         /\ pc' = IF chunk.chunk_type = IEND THEN "write" ELSE "chunks"
         /\ UNCHANGED <<file, plte, result>>

\* The body of the loop, for the chunk read.
HandleChunk(chunk) ==
    IF ~chunk.ok
    THEN Return("FileReadError") /\ UNCHANGED <<file, png, plte>>
    ELSE IF chunk.chunk_type = PLTE
    THEN \E sorted \in SortedOrders(file, CollectColors(file, chunk)) :
             PlteHandled(chunk, HandlePlte(file, chunk, transform, sorted))
    ELSE /\ png' = chunk.next
         /\ pc' = IF chunk.chunk_type = IEND THEN "write" ELSE "chunks"
         /\ UNCHANGED <<file, plte, result>>

\* One iteration of the loop of PngColorType::Palette.
ReadChunk ==
    /\ pc = "chunks"
    /\ HandleChunk(read_chunk(file, png))
    /\ UNCHANGED <<fs, fs0, history, source, target, transform, writes>>
    /\ UNCHANGED notpng

\* std::fs::write(&target, file)?; Ok(())
WriteTarget ==
    /\ pc = "write"
    /\ fs' = [fs EXCEPT ![target] = file]
    /\ writes' = writes + 1
    /\ Return("Ok")
    /\ UNCHANGED <<fs0, history, source, target, transform, file, png, plte>>
    /\ UNCHANGED notpng

\* recolor_png is called again on the file it has just written in place,
\* with the pair of the Map that was applied turned round.
CallBack ==
    /\ pc = "done"
    /\ result = "Ok"
    /\ writes = 1
    /\ history = <<>>
    /\ target = source
    /\ transform.kind = "Map"
    /\ Len(transform.map) = 1
    /\ history' = Append(history, fs0)
    /\ fs0' = fs
    /\ transform' = MapTransform(<<ColorMap(transform.map[1].current_color,
                                            transform.map[1].new_color)>>)
    /\ file' = <<>>
    /\ png' = 0
    /\ pc' = "call"
    /\ result' = "none"
    /\ plte' = <<>>
    /\ writes' = 0
    /\ UNCHANGED <<fs, source, target>>
    /\ UNCHANGED notpng

Next ==
    \/ Open
    \/ CheckSignature
    \/ ReadIhdr
    \/ ReadChunk
    \/ WriteTarget
    \/ CallBack

Spec == Init /\ [][Next]_vars

\* recolor_png runs in the calling thread and nothing it does waits for
\* another: a call that has a next step takes it.  An iteration of the chunk
\* loop can be taken exactly when pc = "chunks" (the body moves the iterator
\* or returns, whatever the chunk), so the weak fairness of ReadChunk is
\* written with that condition for its enabledness.
ReadChunkFair == []<>(pc # "chunks") \/ []<><<ReadChunk>>_vars

FairSpec ==
    /\ Spec
    /\ WF_vars(Open)
    /\ WF_vars(CheckSignature)
    /\ WF_vars(ReadIhdr)
    /\ ReadChunkFair
    /\ WF_vars(WriteTarget)

\* No recolor_png call is under way.
PngIdle ==
    /\ fs = [p \in Paths |-> NoFile]
    /\ fs0 = fs
    /\ history = <<>>
    /\ source = SourcePath
    /\ target = SourcePath
    /\ transform = MapTransform(<<>>)
    /\ file = <<>>
    /\ png = 0
    /\ pc = "done"
    /\ result = "none"
    /\ plte = <<>>
    /\ writes = 0

(***************************************************************************)
(* write_config.                                                           *)
(***************************************************************************)
\* writeln!(&mut writer, "{}", s)
Line(s) == s \o <<"\n">>

\* writeln!(&mut writer, "[name]")
Header(name) == Line(<<"[">> \o name \o <<"]">>)

\* "{}" of a bool
BoolToString(b) == IF b THEN Str_true ELSE Str_false

\* for color in row { write!(&mut writer, "{}", color)?; }
RowToString(row) == Flatten([k \in 1..Len(row) |-> ColorToString(row[k])])

\* for target in config.get_target_files() { writeln!(..., "{}", target)?; }
TargetLines(target_files) == Flatten([k \in 1..Len(target_files) |-> Line(target_files[k])])

\* The Config::GradientConfig arm.
WriteGradientConfig(config) ==
    Header(Str_mode) \o Line(Str_gradient)
    \o Header(Str_overwrite) \o Line(BoolToString(config.overwrite))
    \o Header(Str_current_color) \o Line(ColorToString(config.current_color))
    \o Header(Str_colors)
    \o Flatten([k \in 1..Len(config.colors) |-> Line(ColorToString(config.colors[k]))])
    \o Header(Str_target_files) \o TargetLines(config.target_files)

\* The Config::MapConfig arm: it too writes "gradient" under [mode].
WriteMapConfig(config) ==
    Header(Str_mode) \o Line(Str_gradient)
    \o Header(Str_overwrite) \o Line(BoolToString(config.overwrite))
    \o Header(Str_current_color) \o Line(RowToString(config.current_color))
    \o Header(Str_colors)
    \o Flatten([k \in 1..Len(config.colors) |-> Line(RowToString(config.colors[k]))])
    \o Header(Str_target_files) \o TargetLines(config.target_files)

\* write_config: the text the target file holds after the flush.
write_config(config) ==
    CASE config.variant = "GradientConfig" -> WriteGradientConfig(config)
      [] config.variant = "MapConfig" -> WriteMapConfig(config)

(***************************************************************************)
(* The config texts parse_config is given.                                 *)
(***************************************************************************)
MaxColorLines == 2   \* lines of a [colors] section
ParseCalls == 3      \* parse_config calls of a run, a write_config between two

\* The lines, each but the last followed by a newline.
RECURSIVE JoinLines(_)
JoinLines(lines) ==
    IF lines = <<>> THEN <<>>
    ELSE IF Len(lines) = 1 THEN lines[1]
    ELSE lines[1] \o <<"\n">> \o JoinLines(Tail(lines))

Bracketed(name) == <<"[">> \o name \o <<"]">>

TxtA == <<"#", "1", "1", "2", "2", "3", "3">>
TxtB == <<"#", "4", "4", "5", "5", "6", "6">>
TxtWeighted == <<"2", "#", "A", "A", "B", "B", "C", "C">>
TxtBadColor == <<"#", "1", "1", "2", "2", "3", "g">>
TxtRow == <<"#", "1", "1", "2", "2", "3", "3", "#", "4", "4", "5", "5", "6", "6">>
TxtWeightedRow == <<"2", "#", "4", "4", "5", "5", "6", "6", "#", "1", "1", "2", "2", "3", "3">>
TxtCurrentOne == <<"1", "1", "2", "2", "3", "3">>
TxtCurrentTwo == <<"1", "1", "2", "2", "3", "3", "#", "4", "4", "5", "5", "6", "6">>
TxtFileA == <<"a", ".", "p", "n", "g">>
TxtFileB == <<"b", " ", "c">>

\* Sequences of one to n elements of S.
SeqsFrom1(S, n) == SeqsUpTo(S, n) \ {<<>>}

OverwriteSections == {<<>>, <<Bracketed(Str_overwrite), Str_true>>}
GradientCurrentSections == {<<>>, <<Bracketed(Str_current_color), TxtA>>}
TargetSections == {<<>>, <<Bracketed(Str_target_files), TxtFileA, TxtFileB>>}
GradientColorLines == {TxtB, TxtWeighted, TxtBadColor}
MapColorLines == {TxtRow, TxtWeightedRow}
MapCurrentLines == {TxtCurrentOne, TxtCurrentTwo, TxtA}

\* Gradient configs whose [colors] section ends the text, and others in the
\* order write_config uses.
GradientTexts ==
    {JoinLines(<<Bracketed(Str_mode), Str_gradient>> \o ow \o cc \o tf
               \o <<Bracketed(Str_colors)>> \o cl) :
        ow \in OverwriteSections, cc \in GradientCurrentSections, tf \in TargetSections,
        cl \in SeqsFrom1(GradientColorLines, MaxColorLines)}
    \cup
    {JoinLines(<<Bracketed(Str_mode), Str_gradient>> \o ow \o cc
               \o <<Bracketed(Str_colors)>> \o cl \o tf) :
        ow \in OverwriteSections, cc \in GradientCurrentSections,
        tf \in TargetSections \ {<<>>},
        cl \in SeqsFrom1(GradientColorLines, MaxColorLines)}

\* Map configs whose [current_color] section ends the text, and some in
\* which [colors] follows it.
MapTexts ==
    {JoinLines(<<Bracketed(Str_mode), Str_map>> \o ow \o <<Bracketed(Str_colors)>> \o cl
               \o <<Bracketed(Str_current_color), cc>>) :
        ow \in OverwriteSections, cl \in SeqsFrom1(MapColorLines, MaxColorLines),
        cc \in MapCurrentLines}
    \cup
    {JoinLines(<<Bracketed(Str_mode), Str_map, Bracketed(Str_current_color), cc,
                 Bracketed(Str_colors), cl>>) :
        cc \in {TxtCurrentOne}, cl \in MapColorLines}

\* Texts with white space around them, an empty line, a second [mode]
\* section, texts that do not begin with '[', colour lines before any mode
\* line, and texts without a mode line or without a colours line.
OtherTexts ==
    {<<" ", "\n">> \o JoinLines(<<Bracketed(Str_mode), Str_gradient, Bracketed(Str_colors),
                                  TxtB, TxtB>>) \o <<"\n", "\n">>,
     JoinLines(<<Bracketed(Str_mode), Str_gradient, Bracketed(Str_target_files), <<>>,
                 TxtFileA, Bracketed(Str_colors), TxtB>>),
     JoinLines(<<Bracketed(Str_mode), Str_gradient, Bracketed(Str_colors), TxtB,
                 Bracketed(Str_mode), Str_map, Bracketed(Str_colors), TxtRow>>),
     JoinLines(<<Bracketed(Str_mode), Str_gradient, Bracketed(Str_overwrite), Str_false,
                 Bracketed(Str_colors), TxtCurrentOne>>),
     JoinLines(<<Bracketed(Str_colors), TxtB, Bracketed(Str_mode), Str_gradient>>),
     JoinLines(<<Bracketed(Str_mode), Str_gradient>>),
     JoinLines(<<Bracketed(Str_mode), Str_true, Bracketed(Str_colors), TxtB>>),
     JoinLines(<<Bracketed(Str_true), Str_gradient>>),
     Bracketed(Str_mode) \o Str_gradient,
     Str_gradient,
     <<>>,
     <<" ", "\t", "x">> \o JoinLines(<<Bracketed(Str_mode), Str_gradient,
                                        Bracketed(Str_colors), TxtB>>),
     <<"]">> \o JoinLines(<<Bracketed(Str_mode), Str_map, Bracketed(Str_colors), TxtRow>>),
     JoinLines(<<TxtB, Bracketed(Str_mode), Str_gradient, Bracketed(Str_colors), TxtB>>),
     JoinLines(<<Bracketed(Str_current_color), TxtCurrentOne, Bracketed(Str_mode),
                 Str_gradient, Bracketed(Str_colors), TxtB>>),
     JoinLines(<<Bracketed(Str_colors), TxtB>>),
     JoinLines(<<Bracketed(Str_current_color), TxtCurrentOne>>),
     JoinLines(<<Bracketed(Str_mode), Str_gradient, Bracketed(Str_colors)>>),
     JoinLines(<<Bracketed(Str_mode), Str_map, Bracketed(Str_current_color), TxtCurrentTwo,
                 Bracketed(Str_colors)>>),
     JoinLines(<<Bracketed(Str_colors), Bracketed(Str_mode), Str_gradient>>)}

TxtNotWeighted == <<"x">> \o TxtB
TxtFileSpaced == <<" ", "a", ".", "p", "n", "g">>
TxtFileTrailing == <<"b", " ", "c", " ">>

\* Texts about single lines: a map current colour in display form before
\* the colours; gradient colour lines without '#', with a prefix that is no
\* number and with a weight, all ended by a newline; overwrite lines after
\* a "true" line; a mode that changes between colour lines or after the
\* current colour, and one that changes back; two [colors] sections;
\* target files with white space around them, the last one ending the text;
\* and map texts without a [current_color] section.
LineTexts ==
    {JoinLines(<<Bracketed(Str_mode), Str_map, Bracketed(Str_current_color), TxtRow,
                 Bracketed(Str_colors), TxtRow>>),
     JoinLines(<<Bracketed(Str_mode), Str_gradient, Bracketed(Str_colors), TxtCurrentOne,
                 TxtB>>),
     JoinLines(<<Bracketed(Str_mode), Str_gradient, Bracketed(Str_colors), TxtNotWeighted,
                 TxtWeighted, TxtB, Bracketed(Str_target_files), TxtFileA>>),
     JoinLines(<<Bracketed(Str_mode), Str_gradient, Bracketed(Str_overwrite), Str_true,
                 Str_false, Bracketed(Str_colors), TxtB>>),
     JoinLines(<<Bracketed(Str_mode), Str_gradient, Bracketed(Str_overwrite), Str_true,
                 Bracketed(Str_colors), TxtB, TxtB, Bracketed(Str_overwrite), Str_false>>),
     JoinLines(<<Bracketed(Str_mode), Str_map, Bracketed(Str_colors), TxtRow,
                 Bracketed(Str_mode), Str_gradient, Bracketed(Str_colors), TxtB, TxtB>>),
     JoinLines(<<Bracketed(Str_mode), Str_gradient, Bracketed(Str_current_color), TxtA,
                 Bracketed(Str_mode), Str_map, Bracketed(Str_colors), TxtRow,
                 Bracketed(Str_target_files), TxtFileA>>),
     JoinLines(<<Bracketed(Str_mode), Str_gradient, Bracketed(Str_colors), TxtB,
                 Bracketed(Str_mode), Str_map, Bracketed(Str_mode), Str_gradient,
                 Bracketed(Str_colors), TxtWeighted, TxtB>>),
     JoinLines(<<Bracketed(Str_mode), Str_gradient, Bracketed(Str_colors), TxtWeighted,
                 Bracketed(Str_target_files), TxtFileA, Bracketed(Str_colors), TxtB,
                 TxtWeighted, TxtB>>),
     JoinLines(<<Bracketed(Str_mode), Str_gradient, Bracketed(Str_colors), TxtB, TxtB,
                 Bracketed(Str_target_files), TxtFileSpaced, TxtFileTrailing>>)
     \o <<"\n">>,
     JoinLines(<<Bracketed(Str_mode), Str_map, Bracketed(Str_colors), TxtRow,
                 TxtWeightedRow>>),
     JoinLines(<<Bracketed(Str_mode), Str_map, Bracketed(Str_colors), TxtRow,
                 Bracketed(Str_target_files), TxtFileA>>)}

ConfigTexts == GradientTexts \cup MapTexts \cup OtherTexts \cup LineTexts

(***************************************************************************)
(* parse_config and write_config, called in turn on one file.              *)
(***************************************************************************)
InitConfig ==
    /\ (config_file \in ConfigTexts \/ config_file = NoText)
    /\ chars = <<>>
    /\ locals = NewLocals
    /\ configs = <<>>
    /\ cpc = "parse"
    /\ cresult = "none"
    /\ PngIdle
    /\ ColorIdle
    /\ MainIdle

\* return Err(..) from parse_config
ReturnErr(e) ==
    /\ cresult' = e
    /\ cpc' = "done"
    /\ UNCHANGED configs

\* let contents = std::fs::read_to_string(target)?; contents.trim().chars()
\* and the declarations of the locals.
ParseConfigCall ==
    /\ cpc = "parse"
    /\ IF config_file = NoText
       THEN ReturnErr("FileReadError") /\ UNCHANGED <<chars, locals>>
       ELSE /\ chars' = Trim(config_file)
            /\ locals' = NewLocals
            /\ cpc' = "loop"
            /\ cresult' = "none"
            /\ UNCHANGED configs
    /\ UNCHANGED <<config_file, notcfg>>

\* The locals after an iteration: an error ends the call.
AfterStep(l) ==
    /\ locals' = l
    /\ IF l.err # "none" THEN ReturnErr(l.err) ELSE UNCHANGED <<cpc, cresult, configs>>

\* for char in chars { match state { ... } }
ParseChar ==
    /\ cpc = "loop"
    /\ chars # <<>>
    /\ chars' = Tail(chars)
    /\ AfterStep(ParseStep(locals, Head(chars)))
    /\ UNCHANGED <<config_file, notcfg>>

\* The Config returned, or the error.
ReturnConfig(config) ==
    IF config = NoConfig THEN ReturnErr("ConfigError")
    ELSE /\ configs' = Append(configs, config)
         /\ cresult' = "Ok"
         /\ cpc' = IF Len(configs) + 1 < ParseCalls THEN "write" ELSE "done"

\* After the loop: the flush of buff and the final match.
ParseReturn ==
    /\ cpc = "loop"
    /\ chars = <<>>
    /\ locals' = Flush(locals)
    /\ ReturnConfig(Build(Flush(locals)))
    /\ UNCHANGED <<config_file, chars, notcfg>>

\* write_config(config, target) on the Config parsed last.
WriteConfig ==
    /\ cpc = "write"
    /\ config_file' = write_config(configs[Len(configs)])
    /\ cpc' = "parse"
    /\ cresult' = "none"
    /\ UNCHANGED <<chars, locals, configs, notcfg>>

NextConfig ==
    \/ ParseConfigCall
    \/ ParseChar
    \/ ParseReturn
    \/ WriteConfig

SpecConfig == InitConfig /\ [][NextConfig]_vars

(***************************************************************************)
(* Color::try_from_hex_str and its Display, called in turn on one string,  *)
(* and GradientConfig::get_colors_scaled, called on one configuration.     *)
(***************************************************************************)
Rounds == 2            \* parse/display rounds on one string
MaxScaledColors == 3   \* colours of the configuration that is scaled

\* The strings parsed: an optional first character and three slices, of which
\* some hold no hexadecimal number and one is a character short.
HexPrefixes == {<<>>, <<"#">>, <<"x">>, <<"+">>}
HexSlices == {<<"0", "0">>, <<"f", "f">>, <<"F", "F">>, <<"a", "B">>, <<"0", "9">>,
              <<"1", "g">>, <<"+", "f">>, <<"7">>}
HexInputs == {p \o a \o b \o c : p \in HexPrefixes, a \in HexSlices, b \in HexSlices,
                                  c \in HexSlices}

\* The configurations scaled: up to MaxScaledColors colours (repeats included),
\* at most one weight per colour, weights 0, 1 and 2.
ScaledColors == {ColorA, ColorB, ColorC}
ScaledWeights == {<<>>, One, <<"2">>}
GradientInputs ==
    {[EmptyGradient EXCEPT !.current_color = cur, !.colors = cs, !.weights = ws] :
        cur \in {ColorA, ColorB, Black},
        <<cs, ws>> \in {cw \in SeqsUpTo(ScaledColors, MaxScaledColors)
                                \X SeqsUpTo(ScaledWeights, MaxScaledColors) :
                            Len(cw[2]) <= Len(cw[1])}}

InitColor ==
    /\ \/ hex_str \in HexInputs /\ gradient = EmptyGradient
       \/ hex_str = <<>> /\ gradient \in GradientInputs
    /\ parsed = <<>>
    /\ displayed = <<>>
    /\ scaled = <<"None">>
    /\ PngIdle
    /\ ConfigIdle
    /\ MainIdle

\* Color::try_from_hex_str(s), s being the string given first or the text
\* that the colour parsed last was formatted to.
TryFromHexStr ==
    /\ Len(parsed) = Len(displayed)
    /\ Len(parsed) < Rounds
    /\ parsed' = Append(parsed,
                        try_from_hex_str(IF displayed = <<>> THEN hex_str
                                         ELSE displayed[Len(displayed)]))
    /\ UNCHANGED <<hex_str, displayed, gradient, scaled, notcol>>

\* format!("{}", color) on the colour parsed last.
DisplayColor ==
    /\ Len(displayed) < Len(parsed)
    /\ parsed[Len(parsed)].ok
    /\ displayed' = Append(displayed, ColorToString(parsed[Len(parsed)].color))
    /\ UNCHANGED <<hex_str, parsed, gradient, scaled, notcol>>

\* gradient.get_colors_scaled()
GetColorsScaled ==
    /\ scaled = <<"None">>
    /\ scaled' = <<"Some", get_colors_scaled(gradient)>>
    /\ UNCHANGED <<hex_str, parsed, displayed, gradient, notcol>>

NextColor ==
    \/ TryFromHexStr
    \/ DisplayColor
    \/ GetColorsScaled

SpecColor == InitColor /\ [][NextColor]_vars

(***************************************************************************)
(* main.rs: the orchestrator, with its own recolor_textfile and            *)
(* recolor_png.  Files are byte sequences; colour strings and file names   *)
(* are sequences of characters.                                            *)
(***************************************************************************)
\* The ASCII code of a character of a colour string.
AsciiOf(c) ==
    CASE c = "#" -> 35
      [] c = "+" -> 43
      [] c \in DecDigits -> 48 + HexVal(c)
      [] c \in {"A", "B", "C", "D", "E", "F"} -> 55 + HexVal(c)
      [] c \in {"a", "b", "c", "d", "e", "f"} -> 87 + HexVal(c)
      [] c = "g" -> 103

\* str::as_bytes
as_bytes(str) == [i \in 1..Len(str) |-> AsciiOf(str[i])]

Continuation(b) == b \in 128..191

\* The number of bytes of the UTF-8 character that begins at byte i of b, 0
\* when none does.
Utf8Width(b, i) ==
    CASE b[i] < 128 -> 1
      [] b[i] \in 194..223 ->
            IF i + 1 <= Len(b) /\ Continuation(b[i + 1]) THEN 2 ELSE 0
      [] b[i] \in 224..239 ->
            IF /\ i + 2 <= Len(b)
               /\ b[i + 1] \in (IF b[i] = 224 THEN 160..191
                                ELSE IF b[i] = 237 THEN 128..159 ELSE 128..191)
               /\ Continuation(b[i + 2])
            THEN 3 ELSE 0
      [] b[i] \in 240..244 ->
            IF /\ i + 3 <= Len(b)
               /\ b[i + 1] \in (IF b[i] = 240 THEN 144..191
                                ELSE IF b[i] = 244 THEN 128..143 ELSE 128..191)
               /\ Continuation(b[i + 2])
               /\ Continuation(b[i + 3])
            THEN 4 ELSE 0
      [] OTHER -> 0

\* Whether std::fs::read_to_string accepts the bytes from byte i on.
RECURSIVE IsUtf8From(_, _)
IsUtf8From(b, i) ==
    IF i > Len(b) THEN TRUE
    ELSE IF Utf8Width(b, i) = 0 THEN FALSE
    ELSE IsUtf8From(b, i + Utf8Width(b, i))

\* str::replace with a pattern that is not empty: the matches are taken from
\* the left and do not overlap.
RECURSIVE ReplaceFrom(_, _, _, _, _)
ReplaceFrom(str, from, to, i, out) ==
    IF i > Len(str) \/ Len(out) < 0 THEN out
    ELSE IF i + Len(from) - 1 <= Len(str) /\ SubSeq(str, i, i + Len(from) - 1) = from
    THEN ReplaceFrom(str, from, to, i + Len(from), out \o to)
    ELSE ReplaceFrom(str, from, to, i + 1, Append(out, str[i]))

\* str::replace with the empty pattern: it matches before every character
\* and at the end.
RECURSIVE InsertBetween(_, _, _, _)
InsertBetween(str, to, i, out) ==
    IF i > Len(str) \/ Len(out) < 0 THEN out \o to
    ELSE InsertBetween(str, to, i + Utf8Width(str, i),
                       out \o to \o SubSeq(str, i, i + Utf8Width(str, i) - 1))

\* file_contents.replace(current_color, new_color)
replace(str, from, to) ==
    IF from = <<>> THEN InsertBetween(str, to, 1, <<>>)
    ELSE ReplaceFrom(str, from, to, 1, <<>>)

\* What a recolor function of main.rs leaves: the error kind or "none", and
\* the bytes the file holds afterwards.
Left(err, content) == [err |-> err, content |-> content]

\* main.rs recolor_textfile; ro tells that the file cannot be written.
main_recolor_textfile(content, ro, new, cur) ==
    IF content = NoFile THEN Left("FileNotFound", content)
    ELSE IF ~IsUtf8From(content, 1) THEN Left("FileReadError", content)
    ELSE IF ro THEN Left("FileReadError", content)
    ELSE Left("none", replace(content, as_bytes(cur), as_bytes(new)))

\* transform.iter().find(..) on the one transform, for the triple at p, and
\* the writes of the new colour: current_color_bytes() is unwrapped,
\* new_color_bytes() is not.
MainTriple(st, p, new, cur) ==
    IF ~cur.ok THEN [st EXCEPT !.err = "Panic"]
    ELSE IF Triple(st.buf, p) # cur.bytes THEN st
    ELSE IF ~new.ok THEN [st EXCEPT !.err = HexError(new)]
    ELSE [st EXCEPT !.buf = SetTriple(st.buf, p, new.bytes)]

\* for _ in 0..chunk.length / 3
RECURSIVE MainTriples(_, _, _, _, _)
MainTriples(st, chunk, t, new, cur) ==
    IF t > chunk.length \div 3 \/ st.err # "none" THEN st
    ELSE MainTriples(MainTriple(st, chunk.data + 3 * (t - 1) + 1, new, cur), chunk, t + 1,
                     new, cur)

\* if chunk.chunk_type == PLTE { ... }, the CRC included
MainPlte(buf, chunk, new, cur) ==
    AfterTransform(MainTriples([buf |-> buf, err |-> "none"], chunk, 1, new, cur), chunk)

\* loop { let mut chunk = read_chunk(&mut png)?; ... }, n bytes having been
\* yielded.
RECURSIVE MainChunks(_, _, _, _)
MainAfterPlte(st, chunk, new, cur) ==
    IF st.err # "none" THEN st ELSE MainChunks(st, chunk.next, new, cur)

MainAfterRead(st, chunk, new, cur) ==
    IF ~chunk.ok THEN [st EXCEPT !.err = "FileReadError"]
    ELSE IF chunk.chunk_type = PLTE
    THEN MainAfterPlte(MainPlte(st.buf, chunk, new, cur), chunk, new, cur)
    ELSE IF chunk.chunk_type = IEND THEN st
    ELSE MainChunks(st, chunk.next, new, cur)

MainChunks(st, n, new, cur) == MainAfterRead(st, read_chunk(st.buf, n), new, cur)

\* std::fs::write(&target, file)?; Ok(())
MainWrite(content, st, ro) ==
    IF st.err # "none" THEN Left(st.err, content)
    ELSE IF ro THEN Left("FileReadError", content)
    ELSE Left("none", st.buf)

\* The returns on the colour type, and the loop.
MainColorType(content, ihdr, color_type, ro, new, cur) ==
    CASE color_type = "Err" -> Left("FileReadError", content)
      [] color_type \in {"Grayscale", "GrayscaleAlpha"} -> Left("none", content)
      [] color_type \in {"Rgb", "Rgba"} -> Left("FileReadError", content)
      [] color_type = "Palette" ->
            MainWrite(content,
                      MainChunks([buf |-> content, err |-> "none"], ihdr.next, new, cur), ro)

MainIhdr(content, ihdr, ro, new, cur) ==
    IF ~ihdr.ok \/ ihdr.chunk_type # IHDR \/ ihdr.length <= IHDR_COLOR_TYPE_OFFSET
    THEN Left("FileReadError", content)
    ELSE MainColorType(content, ihdr,
                       PngColorType(content[ihdr.data + IHDR_COLOR_TYPE_OFFSET + 1]),
                       ro, new, cur)

\* main.rs recolor_png with the one ColorTransform of main; new and cur are
\* what new_color_bytes() and current_color_bytes() return.
main_recolor_png(content, ro, new, cur) ==
    IF content = NoFile THEN Left("FileNotFound", content)
    ELSE IF \E i \in 1..8 : i > Len(content) \/ content[i] # PNG_FORMAT_IDENTIFIER[i]
    THEN Left("FileReadError", content)
    ELSE MainIhdr(content, read_chunk(content, 8), ro, new, cur)

\* Path::extension of a file name: what follows its last '.', unless it has
\* none or the last one is its first character.
ExtensionAt(name, last) ==
    IF last <= 1 THEN <<"None">> ELSE <<"Some", SubSeq(name, last + 1, Len(name))>>

Extension(name) ==
    ExtensionAt(name, IF Places(name, ".") = {} THEN 0
                      ELSE CHOOSE i \in Places(name, ".") :
                               \A j \in Places(name, ".") : j <= i)

Str_png == <<"p", "n", "g">>

(***************************************************************************)
(* main, from the draw of the new colour on.                               *)
(***************************************************************************)
MaxTargets == 2        \* target files of the configuration

NameA == <<"a", ".", "p", "n", "g">>
NameB == <<"b", ".", "p", "n", "g">>
NameC == <<"c", ".", "t", "x", "t">>
NameD == <<"d">>
Names == {NameA, NameB, NameC, NameD}

\* "c=#112233", a line feed, "d=#112233", a line feed
TextFile == <<99, 61>> \o as_bytes(StrA) \o <<10, 100, 61>> \o as_bytes(StrA) \o <<10>>

DiskOf(a, b, c) ==
    [n \in Names |-> CASE n = NameA -> a [] n = NameB -> b [] n = NameC -> c
                       [] n = NameD -> TextFile]

\* The files and the names that cannot be written: palette images and text;
\* a read-only text file and a read-only image; an RGB image; an image cut
\* inside its PLTE chunk; missing files; an image without PLTE data, text
\* under a .png name and an image under a .txt name.
Disks ==
    {[files |-> DiskOf(PaletteFile(<<ColorA, ColorB>>), PaletteFile(<<ColorA>>), TextFile),
      readonly |-> ro] : ro \in {{}, {NameC}, {NameA}}}
    \cup {[files |-> DiskOf(a, PaletteFile(<<ColorA>>), TextFile), readonly |-> {}] :
            a \in {InputFile("rgb", <<ColorA>>), InputFile("truncated", <<ColorA>>)}}
    \cup {[files |-> DiskOf(NoFile, PaletteFile(<<ColorA>>), NoFile), readonly |-> {}],
          [files |-> DiskOf(InputFile("grayscale", <<ColorA>>), TextFile,
                            PaletteFile(<<ColorA>>)),
           readonly |-> {}]}

\* The configurations: the colours parse or not, and there may be none.
MainConfigs ==
    {[EmptyMainConfig EXCEPT !.current_color = c[1], !.colors = c[2]] :
        c \in {<<StrA, <<StrB>>>>, <<StrA, <<StrB, StrA>>>>, <<StrA, <<>>>>,
               <<StrBad, <<StrB>>>>, <<StrA, <<StrBad>>>>}}

InitMain ==
    /\ \E d \in Disks, cfg \in MainConfigs, tf \in SeqsUpTo(Names, MaxTargets) :
           /\ disk = d.files
           /\ readonly = d.readonly
           /\ main_config = [cfg EXCEPT !.target_files = tf]
    /\ stored_config = main_config
    /\ main_color = <<>>
    /\ cursor = 1
    /\ stderr = <<>>
    /\ config_writes = 0
    /\ mpc = "choose"
    /\ mresult = "none"
    /\ PngIdle
    /\ ConfigIdle
    /\ ColorIdle

\* let new_color = config.colors.get(rng.gen_range(0..config.colors.len()))
\*     .unwrap(): the empty range panics.
ChooseColor ==
    /\ mpc = "choose"
    /\ IF main_config.colors = <<>>
       THEN mresult' = "Panic" /\ mpc' = "done" /\ UNCHANGED main_color
       ELSE /\ \E i \in 1..Len(main_config.colors) : main_color' = main_config.colors[i]
            /\ mpc' = "loop"
            /\ UNCHANGED mresult
    /\ UNCHANGED <<disk, readonly, main_config, stored_config, cursor, stderr,
                   config_writes, notmain>>

\* recolor_png(path, transform.as_slice())?; continue;
PngDone(target_file, left) ==
    /\ disk' = [disk EXCEPT ![target_file] = left.content]
    /\ IF left.err = "none"
       THEN cursor' = cursor + 1 /\ UNCHANGED <<mpc, mresult>>
       ELSE mresult' = left.err /\ mpc' = "done" /\ UNCHANGED cursor
    /\ UNCHANGED stderr

\* if let Err(e) = recolor_textfile(..) { eprintln!(..) }
TextDone(target_file, left) ==
    /\ disk' = [disk EXCEPT ![target_file] = left.content]
    /\ cursor' = cursor + 1
    /\ stderr' = IF left.err = "none" THEN stderr
                 ELSE Append(stderr, [target_file |-> target_file, error |-> left.err])
    /\ UNCHANGED <<mpc, mresult>>

\* The body of the loop over the target files.
TargetBody(target_file) ==
    IF disk[target_file] = NoFile
    THEN /\ stderr' = Append(stderr, [target_file |-> target_file, error |-> "not found"])
         /\ cursor' = cursor + 1
         /\ UNCHANGED <<disk, mpc, mresult>>
    ELSE IF Extension(target_file) = <<"Some", Str_png>>
    THEN PngDone(target_file,
                 main_recolor_png(disk[target_file], target_file \in readonly,
                                  hex_to_bytes(main_color),
                                  hex_to_bytes(main_config.current_color)))
    ELSE TextDone(target_file,
                  main_recolor_textfile(disk[target_file], target_file \in readonly,
                                        main_color, main_config.current_color))

\* One iteration of `for target_file in &config.target_files`.
Target ==
    /\ mpc = "loop"
    /\ cursor <= Len(main_config.target_files)
    /\ TargetBody(main_config.target_files[cursor])
    /\ UNCHANGED <<readonly, main_config, stored_config, main_color, config_writes, notmain>>

\* A variant of the last step that persists as soon as one target has been
\* gone through.
PersistAfterOneTarget ==
    /\ mpc = "loop"
    /\ cursor > Min(1, Len(main_config.target_files))
    /\ main_config' = [main_config EXCEPT !.current_color = main_color]
    /\ stored_config' = main_config'
    /\ config_writes' = config_writes + 1
    /\ mresult' = "Ok"
    /\ mpc' = "done"
    /\ UNCHANGED <<disk, readonly, main_color, cursor, stderr, notmain>>

\* config.current_color = new_color.to_owned();
\* fs::write(config_path, toml::to_string(&config)?)?; Ok(())
Persist ==
    /\ mpc = "loop"
    /\ cursor > Len(main_config.target_files)
    /\ main_config' = [main_config EXCEPT !.current_color = main_color]
    /\ stored_config' = main_config'
    /\ config_writes' = config_writes + 1
    /\ mresult' = "Ok"
    /\ mpc' = "done"
    /\ UNCHANGED <<disk, readonly, main_color, cursor, stderr, notmain>>

NextMain ==
    \/ ChooseColor
    \/ Target
    \/ Persist

SpecMain == InitMain /\ [][NextMain]_vars

(***************************************************************************)
(* Properties of recolor_png.                                              *)
(***************************************************************************)
\* recolor_png returned Ok after writing the target: a palette image.
PaletteSuccess == pc = "done" /\ result = "Ok" /\ writes = 1

\* The source as it was when recolor_png was called, and what was written.
Original == fs0[source]
Written == fs[target]

\* The PLTE chunks handled, as sets of byte numbers.
PlteDataBytes == UNION {(plte[k].data + 1)..(plte[k].data + plte[k].length) : k \in 1..Len(plte)}
PlteCrcBytes == UNION {(plte[k].crc + 1)..(plte[k].crc + 4) : k \in 1..Len(plte)}

\* The index of the red byte of every whole triple of the PLTE chunks handled.
PlteTriples ==
    UNION {{plte[k].data + 3 * (t - 1) + 1 : t \in 1..(plte[k].length \div 3)} :
             k \in 1..Len(plte)}

\* C1: after a successful palette recolor the bytes written have the length
\* of the input and differ from it only inside the data bytes and the four
\* CRC bytes of chunks whose type field reads PLTE.
C1_FrameOutsidePlte ==
    PaletteSuccess =>
        /\ Len(Written) = Len(Original)
        /\ \A k \in 1..Len(plte) :
               SubSeq(Original, plte[k].data - 3, plte[k].data) = TypePLTE
        /\ \A i \in 1..Len(Original) :
               Written[i] # Original[i] => i \in PlteDataBytes \cup PlteCrcBytes

\* A success on the file with another chunk, two PLTE chunks and bytes after
\* IEND, in which a palette byte did change.
C1_Witness ==
    /\ PaletteSuccess
    /\ Len(plte) = 2
    /\ Len(Original) > plte[2].crc + 4 + 12
    /\ \E i \in PlteDataBytes : Written[i] # Original[i]

\* A CRC-32 computed bit by bit, without a table: the register is shifted
\* right once per bit and the reflected polynomial 0xEDB88320 is added when
\* the bit shifted out is set.
RECURSIVE RefCrcBits(_, _)
RefCrcBits(reg, k) ==
    IF k = 0 \/ reg[4] \notin 0..255 THEN reg
    ELSE RefCrcBits(IF reg[4] % 2 = 1 THEN Xor(Shr1(reg), <<237, 184, 131, 32>>)
                    ELSE Shr1(reg), k - 1)

RECURSIVE RefCrcBytes(_, _, _)
RefCrcBytes(reg, buf, i) ==
    IF i > Len(buf) \/ reg[4] \notin 0..255 THEN reg
    ELSE RefCrcBytes(RefCrcBits(Xor(reg, <<0, 0, 0, buf[i]>>), 8), buf, i + 1)

RefCrc32(buf) == Xor(RefCrcBytes(<<255, 255, 255, 255>>, buf, 1), <<255, 255, 255, 255>>)

\* C2: after a successful palette recolor the four CRC bytes of every PLTE
\* chunk read before IEND are, most significant byte first, the reference
\* CRC-32 of the four type bytes followed by the chunk's data as written.
C2_PlteCrcIsCrc32 ==
    PaletteSuccess =>
        \A k \in 1..Len(plte) :
            SubSeq(Written, plte[k].crc + 1, plte[k].crc + 4)
                = RefCrc32(SubSeq(Written, plte[k].data - 3, plte[k].data + plte[k].length))

\* The palette #112233 mapped to #445566: the CRC-32 of "PLTE" 44 55 66 is
\* 0xB3F475BA.
C2_Witness ==
    /\ PaletteSuccess
    /\ Len(plte) = 1
    /\ SubSeq(Original, plte[1].data + 1, plte[1].data + plte[1].length) = ColorA
    /\ SubSeq(Written, plte[1].data + 1, plte[1].data + plte[1].length) = ColorB
    /\ SubSeq(Written, plte[1].crc + 1, plte[1].crc + 4) = <<179, 244, 117, 186>>

\* The pairs of a Map transform as (old, new) byte triples; a list with a
\* colour string that does not parse has none.
MapParses ==
    /\ transform.kind = "Map"
    /\ \A i \in 1..Len(transform.map) :
           current_color_bytes(transform.map[i]).ok /\ new_color_bytes(transform.map[i]).ok

OldOf(i) == current_color_bytes(transform.map[i]).bytes
NewOf(i) == new_color_bytes(transform.map[i]).bytes

\* The pairs whose old colour is t, and the first of them in list order.
Matching(t) == {i \in 1..Len(transform.map) : OldOf(i) = t}
FirstMatch(t) == CHOOSE i \in Matching(t) : \A j \in Matching(t) : i <= j

\* C3: under Map the final value of a palette triple is the new colour of
\* the first pair, in list order, whose old colour is the triple's original
\* value.  (Stated for the triples that are neither black nor white.)
C3_FirstMatchOnce ==
    (PaletteSuccess /\ MapParses) =>
        \A p \in PlteTriples :
            (~IsBlackOrWhite(Triple(Original, p)) /\ Matching(Triple(Original, p)) # {})
                => Triple(Written, p) = NewOf(FirstMatch(Triple(Original, p)))

\* C4: under Map a palette triple equal to the old colour of a pair is
\* overwritten with a new colour of the list, whatever the triple's value,
\* black and white included.
C4_EveryTripleSubstituted ==
    (PaletteSuccess /\ MapParses) =>
        \A p \in PlteTriples :
            Matching(Triple(Original, p)) # {}
                => \E i \in 1..Len(transform.map) : Triple(Written, p) = NewOf(i)

\* C5: under Map a palette triple whose original value is the old colour of
\* no pair is written as it was.
C5_UnmatchedUnchanged ==
    (PaletteSuccess /\ transform.kind = "Map") =>
        \A p \in PlteTriples :
            (\A i \in 1..Len(transform.map) :
                 current_color_bytes(transform.map[i]).ok => OldOf(i) # Triple(Original, p))
                => Triple(Written, p) = Triple(Original, p)

\* A chunk with a triple that matches no pair and is neither black nor
\* white, next to a triple that was replaced.
C5_Witness ==
    /\ PaletteSuccess
    /\ MapParses
    /\ \E p, q \in PlteTriples :
           /\ ~IsBlackOrWhite(Triple(Original, p))
           /\ Matching(Triple(Original, p)) = {}
           /\ Triple(Written, p) = Triple(Original, p)
           /\ Triple(Written, q) # Triple(Original, q)

\* The colour type byte of the source when its signature and IHDR chunk are
\* in place, and -1 otherwise.
SourceColorType ==
    IF Original = NoFile \/ Len(Original) < 8 + 8 + IHDR_COLOR_TYPE_OFFSET + 1 + 4 THEN -1
    ELSE IF SubSeq(Original, 1, 8) # PNG_FORMAT_IDENTIFIER
            \/ SubSeq(Original, 13, 16) # TypeIHDR
            \/ SubSeq(Original, 9, 12) # <<0, 0, 0, 13>>
            \/ Len(Original) < 8 + 8 + 13 + 4
    THEN -1
    ELSE Original[8 + 8 + IHDR_COLOR_TYPE_OFFSET + 1]

\* C6: on an RGB or RGBA image recolor_png returns UnsupportedError and
\* leaves every file as it was.
C6_RgbUnsupported ==
    (pc = "done" /\ SourceColorType \in {2, 6}) =>
        result = "UnsupportedError" /\ fs = fs0 /\ writes = 0

\* C7: on a grayscale or grayscale-alpha image recolor_png returns Ok right
\* after IHDR: nothing more is read, no PLTE chunk is handled, nothing is
\* written and every file is as it was.
C7_GrayscaleNoOp ==
    (SourceColorType \in {0, 4} /\ pc \notin {"call", "signature", "ihdr"}) =>
        /\ pc = "done"
        /\ result = "Ok"
        /\ png = 8 + 8 + 13 + 4
        /\ plte = <<>>
        /\ file = Original
        /\ writes = 0
        /\ fs = fs0

\* A grayscale-alpha file with a PLTE chunk and no IEND after IHDR, given a
\* Map transform whose colour string does not parse.
C7_Witness ==
    /\ pc = "done"
    /\ result = "Ok"
    /\ SourceColorType = 4
    /\ Len(Original) > 8 + 8 + 13 + 4
    /\ transform.kind = "Map"
    /\ ~MapParses

\* C8: the target is written at most once, by the step that ends the call
\* with Ok; until then, and after every error return, every file holds what
\* it held when recolor_png was called.
C8_WriteOnceAtEnd ==
    /\ writes <= 1
    /\ (pc # "done" \/ result # "Ok") => (writes = 0 /\ fs = fs0)
    /\ writes = 1 => (pc = "done" /\ result = "Ok")

\* An error return after palette bytes were replaced in the buffer, the
\* target being the source.
C8_Witness ==
    /\ pc = "done"
    /\ result = "ConfigError"
    /\ target = source
    /\ file # Original
    /\ fs = fs0

\* The source is a palette file none of whose PLTE entries is a shade: each
\* is black or white, or the chunk is empty.
NoShade ==
    \E v \in WellFormed, pal \in Palettes :
        /\ \A i \in 1..Len(pal) : IsBlackOrWhite(pal[i])
        /\ Original = InputFile(v, pal)

\* C31: on a palette file whose PLTE chunk holds no colour other than black
\* and white (an empty chunk included), Gradient returns PngFormatError and
\* no file is written, while Map returns Ok and writes the target.
C31_NoShadeFailsGradientOnly ==
    (NoShade /\ pc = "done") =>
        IF transform.kind = "Gradient"
        THEN result = "PngFormatError" /\ writes = 0 /\ fs = fs0
        ELSE result = "Ok" /\ writes = 1

\* Gradient returned PngFormatError after reading a PLTE chunk of one white
\* entry, with the IEND chunk still unread.
C31_Witness ==
    /\ NoShade
    /\ pc = "done"
    /\ transform.kind = "Gradient"
    /\ result = "PngFormatError"
    /\ Original = PaletteFile(<<White>>)
    /\ png = Len(Original) - Len(IendChunk)
    /\ file = Original

\* The 12 bytes that frame a chunk: length, type and CRC.
FrameBytes == Len(IendChunk)

\* One iteration of the chunk loop: it returns an error, or it has taken a
\* whole chunk (its frame at least) from the bytes that were left, and it
\* leaves the loop exactly when that chunk is IEND.
ChunkStep ==
    pc = "chunks" =>
        \/ pc' = "done" /\ result' \notin {"none", "Ok"}
        \/ /\ png' >= png + FrameBytes
           /\ png' <= Len(file)
           /\ read_chunk(file, png).ok
           /\ pc' = IF read_chunk(file, png).chunk_type = IEND THEN "write" ELSE "chunks"

\* The steps of a call outside the loop leave the PLTE chunks handled as
\* they are, and the buffer once it is read.
LoopOnly ==
    /\ pc \in {"call", "signature", "ihdr", "write"} => plte' = plte
    /\ pc \in {"signature", "ihdr", "write"} => file' = file

\* Once the loop has stopped at IEND, every PLTE chunk handled ends before
\* that IEND chunk begins.
BeforeIend ==
    pc = "write" => \A k \in 1..Len(plte) : plte[k].next <= png - FrameBytes

\* C33: every recolor_png call ends; an iteration of the chunk loop takes at
\* least the 12 bytes of a chunk frame from the bytes left, or returns an
\* error, and the loop stops at IEND; PLTE chunks are handled before the
\* first IEND only.
C33_Terminates ==
    /\ (pc = "call") ~> (pc = "done")
    /\ [][ChunkStep /\ LoopOnly]_vars
    /\ [](BeforeIend)

\* A call that ended with Ok on a file with a PLTE chunk after IEND: two
\* PLTE chunks were handled and recoloured, the bytes after IEND were never
\* read and are written as they were.
C33_Witness ==
    /\ PaletteSuccess
    /\ Len(plte) = 2
    /\ png + Len(PlteChunk(<<ColorA>>)) + 1 = Len(file)
    /\ Written # Original
    /\ SubSeq(Written, png + 1, Len(Written)) = PlteChunk(<<ColorA>>) \o <<9>>
    /\ transform.kind = "Map"
    /\ \E i \in 1..Len(transform.map) : current_color_bytes(transform.map[i]).bytes = ColorA

\* In the second call of a round trip: the file the first call was made on,
\* the colour A that the first call replaced (the new colour of the second
\* call) and the colour B that it put in (the current colour of the second).
FirstFile == history[1][source]

BackTo == new_color_bytes(transform.map[1])

BackFrom == current_color_bytes(transform.map[1])

\* A round trip on a file whose PLTE CRC was valid, with colours A and B that
\* are neither black nor white, B absent from the palette.
FreshRoundTrip ==
    /\ history # <<>>
    /\ BackTo.ok
    /\ BackFrom.ok
    /\ ~IsBlackOrWhite(BackTo.bytes)
    /\ ~IsBlackOrWhite(BackFrom.bytes)
    /\ \E pal \in SoundPalettes :
           /\ FirstFile = SoundFile(pal)
           /\ \A i \in 1..Len(pal) : pal[i] # BackFrom.bytes

\* C34: on a palette file with a valid PLTE CRC, with colours A and B that
\* are neither black nor white and B absent from the palette, Map [(B, A)]
\* followed by Map [(A, B)], both in place, returns Ok and leaves the file
\* byte for byte as it was, CRC included.
C34_FreshRoundTrip ==
    (FreshRoundTrip /\ pc = "done") =>
        /\ result = "Ok"
        /\ fs[source] = FirstFile
        /\ fs = history[1]

\* A round trip on the palette A, C, A: the first call wrote B into two
\* entries and another CRC, the second wrote the first file back.
C34_Witness ==
    /\ FreshRoundTrip
    /\ pc = "done"
    /\ result = "Ok"
    /\ FirstFile = SoundFile(<<ColorA, ColorC, ColorA>>)
    /\ Len(plte) = 1
    /\ PlteTriples # {}
    /\ Triple(fs0[source], plte[1].data + 1) = ColorB
    /\ Triple(fs0[source], plte[1].data + 7) = ColorB
    /\ SubSeq(fs0[source], plte[1].crc + 1, plte[1].crc + 4)
           # SubSeq(FirstFile, plte[1].crc + 1, plte[1].crc + 4)
    /\ fs[source] = FirstFile

(***************************************************************************)
(* Properties of parse_config and write_config.                            *)
(***************************************************************************)
\* C9: when parse_config accepts a text, every later parse_config of what
\* write_config wrote succeeds and returns a Config equal to the first in
\* every field.  (Stated for the texts parsed to a GradientConfig, whose
\* mode write_config writes as get_mode gives it.)
C9_RoundTrip ==
    (cpc = "done" /\ configs # <<>> /\ configs[1].variant = "GradientConfig") =>
        /\ cresult = "Ok"
        /\ Len(configs) = ParseCalls
        /\ \A k \in 1..Len(configs) : configs[k] = configs[1]

\* C10: the text write_config leaves starts with the [mode] section holding
\* what get_mode returns for the Config written.
C10_WrittenModeIsGetMode ==
    (cpc = "parse" /\ configs # <<>>) =>
        SubSeq(config_file, 1,
               Len(Header(Str_mode) \o Line(get_mode(configs[Len(configs)]))))
            = Header(Str_mode) \o Line(get_mode(configs[Len(configs)]))

\* The red bytes of the two entries of a single two-entry PLTE chunk, the
\* brighter entry first; neither entry is pure black or pure white.
BrighterFirst(p, q) ==
    /\ Len(plte) = 1
    /\ plte[1].length = 6
    /\ {p, q} = {plte[1].data + 1, plte[1].data + 4}
    /\ ~IsBlackOrWhite(Triple(Original, p))
    /\ ~IsBlackOrWhite(Triple(Original, q))
    /\ ChannelSum(Triple(Original, p)) > ChannelSum(Triple(Original, q))

\* C15: under Gradient, a channel that is 0 in the previous sorted colour
\* changes nothing: the next new colour has, in that channel, the value of
\* the previous new colour (the ratio is taken as 1.0).
C15_ZeroChannelRatioOne ==
    (PaletteSuccess /\ transform.kind = "Gradient") =>
        \A p, q \in PlteTriples :
            BrighterFirst(p, q) =>
                \A k \in 0..2 : Original[p + k] = 0 => Written[q + k] = Written[p + k]

\* A Gradient recolour of such a palette returned Ok.
C15_Witness ==
    /\ PaletteSuccess
    /\ transform.kind = "Gradient"
    /\ \E p, q \in PlteTriples : BrighterFirst(p, q) /\ Original[p] = 0

\* The source held the first bytes of a palette file, ended before the end
\* of the IEND chunk.
Truncated ==
    /\ Original # NoFile
    /\ \E v \in WellFormed, pal \in CutPalettes :
           /\ Len(Original) < Len(ToIend(v, pal))
           /\ Original = SubSeq(ToIend(v, pal), 1, Len(Original))

\* The colour strings of the transform parse.
TransformParses ==
    IF transform.kind = "Map" THEN MapParses ELSE hex_to_bytes(transform.primary).ok

\* C19: on a palette file whose bytes end before the IEND chunk has been
\* read, wherever they end, recolor_png returns an error (a read error,
\* unless a colour string of the transform was refused first) and writes
\* nothing.
C19_TruncatedIsAnError ==
    (Truncated /\ pc = "done") =>
        /\ result \in {"FileReadError", "ConfigError"}
        /\ TransformParses => result = "FileReadError"
        /\ writes = 0
        /\ fs = fs0

\* The bytes ended inside the IEND chunk, after two PLTE chunks had been
\* recoloured in the buffer.
C19_Witness ==
    /\ Truncated
    /\ pc = "done"
    /\ result = "FileReadError"
    /\ Len(plte) = 2
    /\ file # Original
    /\ Len(file) > plte[2].crc + 4

\* A Gradient recolour returned Ok, and the bytes of its primary colour.
GradientSuccess == PaletteSuccess /\ transform.kind = "Gradient"

Seed == hex_to_bytes(transform.primary).bytes

\* The entries of the k-th PLTE chunk handled, each as the index of its red
\* byte, and those of them that were neither pure black nor pure white.
TriplesOf(k) == {plte[k].data + 3 * (t - 1) + 1 : t \in 1..(plte[k].length \div 3)}

ShadesOf(k) == {p \in TriplesOf(k) : ~IsBlackOrWhite(Triple(Original, p))}

\* C28: after a successful Gradient recolour, every palette entry whose
\* original value was the brightest collected colour (one of the largest
\* channel sum among the entries that are not pure black or pure white)
\* holds exactly the primary colour.
C28_BrightestHoldsPrimary ==
    GradientSuccess =>
        \A k \in 1..Len(plte) :
            \E b \in ShadesOf(k) :
                /\ \A p \in ShadesOf(k) :
                       ChannelSum(Triple(Original, b)) >= ChannelSum(Triple(Original, p))
                /\ \A p \in ShadesOf(k) :
                       Triple(Original, p) = Triple(Original, b) => Triple(Written, p) = Seed

\* A Gradient recolour whose primary is the darker of the two colours of
\* the palette returned Ok.
C28_Witness ==
    /\ GradientSuccess
    /\ \E p, q \in PlteTriples : BrighterFirst(p, q) /\ Triple(Original, q) = Seed

\* C29: under Gradient, the palette entries that are pure black or pure
\* white are written unchanged and are not among the colours that are
\* sorted and interpolated: when all other entries have one colour, they
\* hold the primary.
C29_BlackAndWhiteKept ==
    GradientSuccess =>
        \A k \in 1..Len(plte) :
            /\ \A p \in TriplesOf(k) :
                   IsBlackOrWhite(Triple(Original, p)) => Triple(Written, p) = Triple(Original, p)
            /\ \A j \in 1..Len(CollectColors(Original, plte[k])) :
                   CollectColors(Original, plte[k])[j] \in ShadesOf(k)
            /\ \A b \in ShadesOf(k) :
                   (\A p \in ShadesOf(k) : Triple(Original, p) = Triple(Original, b))
                   => Triple(Written, b) = Seed

\* A palette with a white entry, a black entry and two shades was
\* recoloured.
C29_Witness ==
    /\ GradientSuccess
    /\ \E p, q \in PlteTriples :
           /\ Triple(Original, p) = White
           /\ Triple(Original, q) = Black
    /\ \E p \in PlteTriples : Triple(Written, p) # Triple(Original, p)
    /\ Cardinality(PlteTriples) = 4

\* a * b / c truncated toward zero and kept in 0..255, in exact arithmetic.
ExactScale(a, b, c) == {Min((a * b) \div c, 255)}

\* The same in f64 arithmetic, the ratio b / c being rounded before it is
\* multiplied: when a * b / c is a whole number from 1 to 255, the product
\* of a and the rounded ratio may fall just below it and truncate to one
\* less.
RoundedScale(a, b, c) ==
    IF (a * b) % c = 0 /\ (a * b) \div c \in 1..255
    THEN {(a * b) \div c - 1, (a * b) \div c}
    ELSE ExactScale(a, b, c)

\* The map the Gradient branch generates for the colours in the order
\* sorted.
GeneratedFor(sorted) ==
    GenerateMap(Original, sorted, 2,
                <<[old_colors |-> Triple(Original, sorted[1]), new_colors |-> Seed]>>)

\* Every new colour after the first has, in each channel that is not 0 in
\* the previous old colour, one of the values Scale gives for the previous
\* new colour and the two old colours; in a palette of two shades the
\* darker entry is written with these values.
ChannelsScaled(Scale(_, _, _)) ==
    GradientSuccess =>
        /\ \A k \in 1..Len(plte) :
               \A sorted \in SortedOrders(Original, CollectColors(Original, plte[k])) :
                   \A i \in 2..Len(sorted), c \in 1..3 :
                       GeneratedFor(sorted)[i - 1].old_colors[c] # 0 =>
                           GeneratedFor(sorted)[i].new_colors[c]
                               \in Scale(GeneratedFor(sorted)[i - 1].new_colors[c],
                                         GeneratedFor(sorted)[i].old_colors[c],
                                         GeneratedFor(sorted)[i - 1].old_colors[c])
        /\ \A p, q \in PlteTriples :
               BrighterFirst(p, q) =>
                   \A c \in 0..2 :
                       Original[p + c] # 0 =>
                           Written[q + c] \in Scale(Seed[c + 1], Original[q + c], Original[p + c])

\* C30 as stated: the product is the exact one, truncated toward zero and
\* capped at 255.
C30_ExactChannelRatio == ChannelsScaled(ExactScale)

\* C30: with the collected colours sorted by descending channel sum, for
\* each i >= 1 and each channel that is not 0 in old[i-1], new[i] is
\* new[i-1] times the f64 ratio old[i] / old[i-1], truncated toward zero
\* and capped at 255 (never wrapped): the exact quotient truncated, or one
\* less when the exact quotient is a whole number.
C30_RoundedChannelRatio == ChannelsScaled(RoundedScale)

\* A palette of two shades was recoloured, the red channel being 7 * (61 / 7)
\* and written as 60.
C30_Witness ==
    /\ GradientSuccess
    /\ \E p, q \in PlteTriples :
           /\ BrighterFirst(p, q)
           /\ Original[p] # 0
           /\ (Seed[1] * Original[q]) % Original[p] = 0
           /\ Written[q] = (Seed[1] * Original[q]) \div Original[p] - 1

(***************************************************************************)
(* Properties of Color and of GradientConfig::get_colors_scaled.           *)
(***************************************************************************)
\* Six hexadecimal digits in either case, with or without a leading '#'.
AsciiHexDigits == {"0", "1", "2", "3", "4", "5", "6", "7", "8", "9",
                   "a", "b", "c", "d", "e", "f", "A", "B", "C", "D", "E", "F"}

SixDigits(s) == Len(s) = 6 /\ \A i \in 1..6 : s[i] \in AsciiHexDigits

SixHex(s) == SixDigits(s) \/ (Len(s) = 7 /\ s[1] = "#" /\ SixDigits(Tail(s)))

DigitsOf(s) == IF Len(s) = 7 THEN Tail(s) ELSE s

ToLower(c) ==
    CASE c = "A" -> "a" [] c = "B" -> "b" [] c = "C" -> "c" [] c = "D" -> "d"
      [] c = "E" -> "e" [] c = "F" -> "f" [] OTHER -> c

Lowercase(s) == [i \in 1..Len(s) |-> ToLower(s[i])]

\* C11: a string of six hexadecimal digits, with or without '#', parses; the
\* colour is displayed as '#' and the same digits in lowercase; the display
\* form parses to the same colour, which is displayed the same way again.
C11_HexDisplayStable ==
    SixHex(hex_str) =>
        /\ \A i \in 1..Len(parsed) : parsed[i].ok /\ parsed[i].color = parsed[1].color
        /\ \A i \in 1..Len(displayed) :
               displayed[i] = <<"#">> \o Lowercase(DigitsOf(hex_str))

\* An uppercase string without '#' went through two rounds.
C11_Witness ==
    /\ SixHex(hex_str)
    /\ Len(hex_str) = 6
    /\ Lowercase(hex_str) # hex_str
    /\ Len(parsed) = Rounds
    /\ Len(displayed) = Rounds

\* C12: every string that is not six hexadecimal digits optionally preceded
\* by one '#' is refused by Color::try_from_hex_str.
C12_OthersRefused ==
    (~SixHex(hex_str) /\ parsed # <<>>) => ~parsed[1].ok

\* The colours of the configuration that differ from the current colour, as
\* indices, and the weight the claim gives each.
Kept(config) == {i \in 1..Len(config.colors) : config.colors[i] # config.current_color}

RECURSIVE DigitsToNat(_)
DigitsToNat(w) ==
    IF w = <<>> THEN 0 ELSE 10 * DigitsToNat(SubSeq(w, 1, Len(w) - 1)) + HexVal(w[Len(w)])

ClaimedWeight(config, i) ==
    IF i <= Len(config.weights) THEN DigitsToNat(config.weights[i]) ELSE 1

RECURSIVE WeightBefore(_, _)
WeightBefore(config, i) ==
    IF i <= 1 THEN 0
    ELSE WeightBefore(config, i - 1)
         + (IF i - 1 \in Kept(config) THEN ClaimedWeight(config, i - 1) ELSE 0)

\* C13: get_colors_scaled returns, in configuration order, each colour that
\* differs from the current colour weights[i] times (once when weights has
\* no entry i); the current colour is absent and the length is the sum of
\* the weights of the colours kept.
C13_ScaledByWeights ==
    scaled[1] = "Some" =>
        /\ Len(scaled[2]) = WeightBefore(gradient, Len(gradient.colors) + 1)
        /\ \A p \in 1..Len(scaled[2]) : scaled[2][p] # gradient.current_color
        /\ \A i \in Kept(gradient) :
               \A k \in 1..ClaimedWeight(gradient, i) :
                   /\ WeightBefore(gradient, i) + k <= Len(scaled[2])
                   /\ scaled[2][WeightBefore(gradient, i) + k] = gradient.colors[i]

\* Three colours of which the second is the current one and is skipped, the
\* first has weight 2 and the third has no weight.
C13_Witness ==
    /\ scaled[1] = "Some"
    /\ Len(gradient.colors) = 3
    /\ gradient.colors[2] = gradient.current_color
    /\ gradient.colors[1] # gradient.current_color
    /\ gradient.colors[3] # gradient.current_color
    /\ Len(gradient.weights) = 2
    /\ gradient.weights[1] = <<"2">>
    /\ Len(scaled[2]) = 3

\* Color::try_from_hex_str has accepted the string given first.
Accepted == Len(parsed) >= 1 /\ parsed[1].ok

\* What the transform's three decoders make of that string.
Decoded ==
    {hex_to_bytes(hex_str), new_color_bytes(ColorMap(hex_str, StrBlack)),
     current_color_bytes(ColorMap(StrBlack, hex_str))}

\* C36: for every string that Color::try_from_hex_str accepts, hex_to_bytes,
\* ColorMap::new_color_bytes and ColorMap::current_color_bytes return the
\* channels of the Color it returned.
C36_DecodersAgree ==
    Accepted => \A d \in Decoded : d.ok /\ d.bytes = parsed[1].color

\* Six digits without '#': Color::try_from_hex_str read (255, 171, 9) and
\* hex_to_bytes, which drops the first character, (15, 171, 9).
C36_Witness ==
    /\ Accepted
    /\ hex_str = <<"f", "f", "a", "B", "0", "9">>
    /\ parsed[1].color = <<255, 171, 9>>
    /\ hex_to_bytes(hex_str).ok
    /\ hex_to_bytes(hex_str).bytes = <<15, 171, 9>>

(***************************************************************************)
(* Properties of parse_config.                                             *)
(***************************************************************************)
\* The text of the first call, and the place of its first character that is
\* no white space (0 when there is none).
FirstText == configs = <<>> /\ config_file # NoText /\ cpc \in {"loop", "done"}

Blank == {" ", "\n", "\t", "\r"}

FirstVisible(text) ==
    IF \A i \in 1..Len(text) : text[i] \in Blank THEN 0
    ELSE CHOOSE i \in 1..Len(text) :
             text[i] \notin Blank /\ \A j \in 1..(i - 1) : text[j] \in Blank

\* C14: when the first character of the text that is no white space is not
\* '[', parse_config returns ConfigError on that character: nothing after it
\* has been taken and no local but the error has changed.
C14_RefusedAtFirstCharacter ==
    (/\ FirstText
     /\ FirstVisible(config_file) # 0
     /\ config_file[FirstVisible(config_file)] # "[")
    => \/ /\ cpc = "loop"
          /\ locals = NewLocals
          /\ chars # <<>>
          /\ chars[1] = config_file[FirstVisible(config_file)]
       \/ /\ cpc = "done"
          /\ cresult = "ConfigError"
          /\ locals = [NewLocals EXCEPT !.err = "ConfigError"]
          /\ \E n \in 0..Len(config_file) :
                 chars = SubSeq(config_file, FirstVisible(config_file) + 1,
                                FirstVisible(config_file) + n)

\* A text that begins with white space, then a character other than '[',
\* then sections that would parse: the call ended with most of it unread.
C14_Witness ==
    /\ FirstText
    /\ FirstVisible(config_file) > 1
    /\ config_file[FirstVisible(config_file)] # "["
    /\ cpc = "done"
    /\ cresult = "ConfigError"
    /\ Len(chars) > Len(Str_gradient) + Len(Str_colors)

\* A line of a colors or current_color section is complete (its newline is
\* the next character, or the input has ended) and no mode has been parsed.
ColourLineBeforeMode ==
    /\ cpc = "loop"
    /\ locals.state = "Text"
    /\ locals.section \in {"Colors", "CurrentColor"}
    /\ locals.mode = "None"
    /\ locals.buff # <<>>
    /\ chars = <<>> \/ Head(chars) = "\n"

\* C17: a content line of a colors or current_color section that is reached
\* before any mode line makes parse_config return ConfigError at that line,
\* whatever follows it.
C17_ColoursBeforeMode ==
    [][ColourLineBeforeMode =>
            (cresult' = "ConfigError" /\ cpc' = "done" /\ configs' = configs)]_vars

\* A current_color line before any mode was refused although a mode section
\* and a colors section follow it.
C17_Witness ==
    /\ cpc = "done"
    /\ cresult = "ConfigError"
    /\ locals.section = "CurrentColor"
    /\ locals.mode = "None"
    /\ locals.state = "Text"
    /\ locals.buff # <<>>
    /\ Len(chars) > Len(Str_gradient) + Len(Str_colors)

\* C18: at the end of the input, a missing mode line or a missing colors
\* line makes parse_config return ConfigError and no Config; a Config is
\* returned only with no error, a mode and colours, and it holds what the
\* locals hold.
C18_NoConfigWithoutModeOrColors ==
    /\ [](cresult = "Ok" =>
              /\ locals.err = "none"
              /\ locals.mode # "None"
              /\ locals.colors[1] # "None"
              /\ chars = <<>>
              /\ configs # <<>>
              /\ configs[Len(configs)].colors = locals.colors[2]
              /\ configs[Len(configs)].current_color = locals.current_color[2]
              /\ configs[Len(configs)].weights = locals.weights
              /\ configs[Len(configs)].target_files = locals.target_files
              /\ configs[Len(configs)].overwrite = locals.overwrite)
    /\ [][(/\ cpc = "loop"
           /\ chars = <<>>
           /\ locals'.mode = "None" \/ locals'.colors[1] = "None")
          => (cresult' = "ConfigError" /\ cpc' = "done" /\ configs' = configs)]_vars
    /\ [][cresult' # "Ok" => configs' = configs]_vars

\* A [colors] header with no line beneath it, after a valid mode line.
C18_Witness ==
    /\ cpc = "done"
    /\ cresult = "ConfigError"
    /\ chars = <<>>
    /\ locals.err = "none"
    /\ locals.mode = "Gradient"
    /\ locals.section = "Colors"
    /\ locals.colors[1] = "None"

\* C20: whenever the scanner is in state NewLine, the line buffer is empty.
C20_BufferEmptyAtNewLine ==
    (cpc = "loop" /\ locals.state = "NewLine") => locals.buff = <<>>

\* The line of the given section that buff holds is complete: its newline
\* is the next character, or the input has ended.
LineComplete(section) ==
    /\ cpc = "loop"
    /\ locals.state = "Text"
    /\ locals.section = section
    /\ chars = <<>> \/ Head(chars) = "\n"

\* Two outcomes of a line: the same error, or no error and the same mode,
\* colours, weights, current colour(s), target files and overwrite flag.
SameOutcome(a, b) ==
    /\ a.err = b.err
    /\ a.err = "none" =>
           /\ a.mode = b.mode
           /\ a.colors[1] = b.colors[1]
           /\ a.colors = b.colors
           /\ a.weights = b.weights
           /\ a.current_color = b.current_color
           /\ a.target_files = b.target_files
           /\ a.overwrite = b.overwrite

\* C21: a final line that the end of the input completes is interpreted as
\* the loop would interpret the same line on its newline: the same update
\* of mode, colours, weights, current colour(s), target files and overwrite
\* flag, or the same error.
C21_FlushAsDispatch ==
    [][(cpc = "loop" /\ locals.state = "Text" /\ chars = <<>>)
       => SameOutcome(locals', StoreLine(locals))]_vars

\* A gradient text was accepted whose last line is a colour: the flush
\* pushed the colour and no weight.
C21_Witness ==
    /\ cpc # "loop"
    /\ cresult = "Ok"
    /\ locals.mode = "Gradient"
    /\ locals.section = "Colors"
    /\ Len(locals.weights) < Len(locals.colors[2])

\* s is one or more colours in display form (#rrggbb), concatenated.
DisplayRow(s) ==
    /\ Len(s) > 0
    /\ Len(s) % 7 = 0
    /\ \A i \in 1..Len(s) :
           IF i % 7 = 1 THEN s[i] = "#" ELSE s[i] \in AsciiHexDigits

\* The colour that six hex digits denote, and the row that s denotes.
SixAsColour(d) ==
    <<16 * HexVal(d[1]) + HexVal(d[2]), 16 * HexVal(d[3]) + HexVal(d[4]),
      16 * HexVal(d[5]) + HexVal(d[6])>>

RowOf(s) == [k \in 1..(Len(s) \div 7) |-> SixAsColour(SubSeq(s, 7 * k - 5, 7 * k))]

\* C22: in map mode a current_color line that is a row in display form is
\* parsed into the row of its colours, in order, and leaves the buffer
\* empty for the sections that follow.
C22_MapCurrentColourRow ==
    [][(LineComplete("CurrentColor") /\ locals.mode = "Map" /\ DisplayRow(locals.buff))
       => /\ locals'.err = "none"
          /\ locals'.current_color[1] = "Map"
          /\ locals'.current_color[2] = RowOf(locals.buff)
          /\ chars # <<>> => locals'.buff = <<>>]_vars

\* A two-colour row in display form was refused although a colours section
\* follows it.
C22_Witness ==
    /\ cpc = "done"
    /\ cresult = "ConfigError"
    /\ locals.mode = "Map"
    /\ locals.section = "CurrentColor"
    /\ locals.state = "Text"
    /\ DisplayRow(locals.buff)
    /\ Len(locals.buff) = 14
    /\ Len(chars) > Len(Str_colors)

\* The place of the first '#' of s (0 when there is none).
FirstHash(s) ==
    IF Places(s, "#") = {} THEN 0
    ELSE CHOOSE i \in Places(s, "#") : \A j \in Places(s, "#") : i <= j

\* s is a colours line of gradient mode: six hex digits, alone or after a
\* prefix that ends with '#' and holds no other '#'.
GradientLine(s) ==
    /\ Len(s) >= 6
    /\ SixDigits(SubSeq(s, Len(s) - 5, Len(s)))
    /\ Len(s) > 6 => FirstHash(s) = Len(s) - 6

\* The weight such a line gives: its prefix when that is an unsigned
\* decimal number, and 1 otherwise.
LinePrefix(s) == SubSeq(s, 1, FirstHash(s) - 1)

LineWeight(s) ==
    IF LinePrefix(s) # <<>> /\ \A i \in 1..Len(LinePrefix(s)) : LinePrefix(s)[i] \in DecDigits
    THEN StripZeros(LinePrefix(s))
    ELSE One

\* C23: in gradient mode a colours line that is a hex colour, alone or
\* after a '#' or after a '<uint>#' prefix, is accepted and appends the
\* colour with the weight of the prefix, or with weight 1 when there is no
\* prefix or the prefix is no unsigned number.
C23_GradientColourLine ==
    [][(/\ LineComplete("Colors")
        /\ locals.mode = "Gradient"
        /\ locals.colors[1] # "Map"
        /\ GradientLine(locals.buff))
       => /\ locals'.err = "none"
          /\ locals'.colors[1] = "Color"
          /\ locals'.colors[2] =
                 Append(IF locals.colors[1] = "None" THEN <<>> ELSE locals.colors[2],
                        SixAsColour(SubSeq(locals.buff, Len(locals.buff) - 5,
                                           Len(locals.buff))))
          /\ locals'.weights = Append(locals.weights, LineWeight(locals.buff))]_vars

\* A colours line of six hex digits without '#' was refused on its newline.
C23_Witness ==
    /\ cpc = "done"
    /\ cresult = "ConfigError"
    /\ locals.mode = "Gradient"
    /\ locals.section = "Colors"
    /\ locals.state = "Text"
    /\ SixDigits(locals.buff)
    /\ chars # <<>>

\* C24: an overwrite line is never an error and sets the flag from its
\* text: true for "true", false for any other text.
C24_OverwriteFromLine ==
    [][LineComplete("Overwrite")
       => /\ locals'.err = "none"
          /\ locals'.overwrite = (locals.buff = Str_true)]_vars

\* A text with the overwrite lines "true" and then "false" was accepted
\* with the flag set.
C24_Witness ==
    /\ cpc = "write"
    /\ cresult = "Ok"
    /\ Len(configs) = 1
    /\ configs[1].overwrite
    /\ locals.section = "Colors"
    /\ \E i \in 1..(Len(config_file) - Len(Str_false) + 1) :
           SubSeq(config_file, i, i + Len(Str_false) - 1) = Str_false

\* The kind of colour data a mode reads: single colours or rows.
KindOf(mode) ==
    CASE mode = "Gradient" -> "Color" [] mode = "Map" -> "Map" [] mode = "None" -> "None"

\* The step added a colour or a row to colors.
ColoursGrew ==
    /\ cpc = "loop"
    /\ locals'.colors[1] # "None"
    /\ locals.colors[1] # "None" => Len(locals'.colors[2]) > Len(locals.colors[2])

\* C25: a Config returned has the variant of the final mode and holds
\* colours and current colour(s) of that mode's kind; every colour or row
\* was stored under the mode of its kind, and so was the current colour;
\* and a colours line met under a mode of the other kind than the colours
\* stored before it is refused with ConfigError.
C25_OneModeThroughout ==
    /\ [](cresult = "Ok" =>
              /\ configs[Len(configs)].variant
                     = (IF locals.mode = "Gradient" THEN "GradientConfig" ELSE "MapConfig")
              /\ locals.mode # "None"
              /\ locals.colors[1] = KindOf(locals.mode)
              /\ locals.current_color[1] = KindOf(locals.mode))
    /\ [][ColoursGrew =>
              (locals'.colors[1] = KindOf(locals.mode) /\ locals'.mode = locals.mode)]_vars
    /\ [][(cpc = "loop" /\ locals'.current_color # locals.current_color) =>
              locals'.current_color[1] = KindOf(locals.mode)]_vars
    /\ [][(LineComplete("Colors") /\ locals.colors[1] \notin {"None", KindOf(locals.mode)})
          => (cresult' = "ConfigError" /\ cpc' = "done" /\ configs' = configs)]_vars

\* A colour line met in gradient mode after a row stored in map mode was
\* refused on its newline.
C25_Witness ==
    /\ cpc = "done"
    /\ cresult = "ConfigError"
    /\ locals.mode = "Gradient"
    /\ locals.section = "Colors"
    /\ locals.colors[1] = "Map"
    /\ GradientLine(locals.buff)
    /\ chars # <<>>

\* The tokens of a line, and the weight the line gives: its first token
\* when that is an unsigned decimal number, and 1 otherwise.
FirstToken(s) == IF FirstHash(s) = 0 THEN s ELSE SubSeq(s, 1, FirstHash(s) - 1)

WrittenWeight(s) ==
    IF FirstToken(s) # <<>> /\ \A i \in 1..Len(FirstToken(s)) : FirstToken(s)[i] \in DecDigits
    THEN StripZeros(FirstToken(s))
    ELSE One

\* The weights, with a 1 for every colour that has none.
Padded(config) ==
    config.weights \o [k \in 1..(Len(config.colors) - Len(config.weights)) |-> One]

\* C26: in every Config returned the weights are index-aligned with the
\* colours: a line that adds a colour in the loop adds its weight at the
\* same index, only the last line of the text adds a colour without a
\* weight, the weights are never more than the colours, and
\* get_colors_scaled reads a missing weight as 1.
C26_WeightsAligned ==
    /\ [](\A k \in 1..Len(configs) :
              /\ Len(configs[k].weights) <= Len(configs[k].colors)
              /\ configs[k].variant = "GradientConfig" =>
                     get_colors_scaled(configs[k])
                         = get_colors_scaled([configs[k] EXCEPT !.weights = Padded(configs[k])])
              /\ configs[k].variant = "MapConfig" =>
                     map_get_colors_scaled(configs[k])
                         = map_get_colors_scaled([configs[k] EXCEPT
                                                      !.weights = Padded(configs[k])]))
    /\ [][ColoursGrew =>
              IF chars # <<>>
              THEN /\ locals'.weights = Append(locals.weights, WrittenWeight(locals.buff))
                   /\ Len(locals'.weights) = Len(locals'.colors[2])
              ELSE /\ locals'.weights = locals.weights
                   /\ Len(locals.weights) + 1 = Len(locals'.colors[2])]_vars

\* A gradient Config of two colours sections was returned: the weights 2,
\* 1, 2 of its first three lines, and no weight for the last line.
C26_Witness ==
    /\ cresult = "Ok"
    /\ configs[Len(configs)].variant = "GradientConfig"
    /\ Len(configs[Len(configs)].colors) = 4
    /\ configs[Len(configs)].weights = <<<<"2">>, One, <<"2">>>>
    /\ configs[Len(configs)].target_files # <<>>

\* The lines of a text as written; a newline that ends the text ends its
\* last line.
WrittenLines(text) ==
    IF text # <<>> /\ text[Len(text)] = "\n"
    THEN Split(SubSeq(text, 1, Len(text) - 1), "\n")
    ELSE Split(text, "\n")

\* The lines of the target_files sections among lines k.. of a text, the
\* section of line k - 1 being given.
RECURSIVE SectionLines(_, _, _, _)
SectionLines(lines, k, in_section, out) ==
    IF k > Len(lines) \/ Len(out) < 0 THEN out
    ELSE IF lines[k] # <<>> /\ Head(lines[k]) = "["
    THEN SectionLines(lines, k + 1, lines[k] = Bracketed(Str_target_files), out)
    ELSE SectionLines(lines, k + 1, in_section,
                      IF in_section THEN Append(out, lines[k]) ELSE out)

\* C27: the target files of the Config returned are the lines of the
\* target_files sections of the text, exactly as written and in order.
C27_TargetFilesVerbatim ==
    (Len(configs) = 1 /\ cpc = "write") =>
        configs[1].target_files = SectionLines(WrittenLines(config_file), 1, FALSE, <<>>)

\* A text was accepted whose last line is a target file with a space at
\* its end, after one with a space at its beginning.
C27_Witness ==
    /\ Len(configs) = 1
    /\ cpc = "write"
    /\ Len(config_file) > 3
    /\ SubSeq(config_file, Len(config_file) - 1, Len(config_file)) = <<" ", "\n">>
    /\ Len(configs[1].target_files) = 2
    /\ Head(configs[1].target_files[1]) = " "

\* The text holds sub somewhere.
Occurs(text, sub) ==
    \E i \in 0..(Len(text) - Len(sub)) : SubSeq(text, i + 1, i + Len(sub)) = sub

\* The loop has taken the whole of a text that has no [current_color]
\* section, and what it read is a mode and at least one colour of the kind
\* the mode reads, the flush included.
NoCurrentColour ==
    /\ cpc = "loop"
    /\ chars = <<>>
    /\ ~Occurs(config_file, Bracketed(Str_current_color))
    /\ Flush(locals).err = "none"
    /\ Flush(locals).mode # "None"
    /\ Flush(locals).colors[1] = KindOf(Flush(locals).mode)
    /\ Flush(locals).colors[2] # <<>>

\* C35: for a text with a valid mode and at least one colour but no
\* current_color line, parse_config in gradient mode returns a Config whose
\* current colour is black, and in map mode returns ConfigError and no
\* Config.
C35_MissingCurrentColour ==
    [][NoCurrentColour =>
           IF Flush(locals).mode = "Gradient"
           THEN /\ cresult' = "Ok"
                /\ Len(configs') = Len(configs) + 1
                /\ configs'[Len(configs')].variant = "GradientConfig"
                /\ configs'[Len(configs')].current_color = Black
           ELSE /\ cresult' = "ConfigError"
                /\ cpc' = "done"
                /\ configs' = configs]_vars

\* parse_config has returned ConfigError for a map text of a row of two
\* colours and a target file, without a [current_color] section: the
\* colours were stored as rows and the current colour is the initial black.
C35_Witness ==
    /\ cpc = "done"
    /\ cresult = "ConfigError"
    /\ configs = <<>>
    /\ ~Occurs(config_file, Bracketed(Str_current_color))
    /\ chars = <<>>
    /\ locals.err = "none"
    /\ locals.mode = "Map"
    /\ locals.colors[1] = "Map"
    /\ Len(locals.colors[2]) = 1
    /\ locals.current_color = <<"Color", Black>>
    /\ locals.target_files = <<TxtFileA>>

(***************************************************************************)
(* Properties of main.                                                     *)
(***************************************************************************)
\* The colour strings of the configuration parse, so that no target fails
\* on them.
ColoursParse ==
    /\ hex_to_bytes(main_config.current_color).ok
    /\ main_color # <<>>
    /\ hex_to_bytes(main_color).ok

\* C16: a failure on one target never ends the run: when main returns, it
\* has gone through every target of the list and returns Ok.
C16_EveryTargetProcessed ==
    (mpc = "done" /\ ColoursParse) =>
        /\ cursor = Len(main_config.target_files) + 1
        /\ mresult = "Ok"

\* A run whose first target is a text file that cannot be read and whose
\* second is a text file: the error was reported and the second recoloured.
C16_Witness ==
    /\ mpc = "done"
    /\ ColoursParse
    /\ mresult = "Ok"
    /\ Len(main_config.target_files) = 2
    /\ Len(stderr) = 1
    /\ stderr[1].target_file = main_config.target_files[1]
    /\ stderr[1].error = "FileReadError"
    /\ disk[main_config.target_files[2]] = replace(TextFile, as_bytes(StrA), as_bytes(StrB))

\* The loop has gone through every target of the list.
Processed == cursor = Len(main_config.target_files) + 1

\* What a run that has loaded its configuration has persisted so far: at
\* most one write, made with the list gone through and ending the run with
\* Ok; a run that returned Ok made it, one that ended otherwise made none.
PersistedSoFar ==
    /\ config_writes <= 1
    /\ config_writes = 1 => (Processed /\ mpc = "done" /\ mresult = "Ok")
    /\ (mpc = "done" /\ mresult = "Ok") =>
           (config_writes = 1 /\ stored_config.current_color = main_color)
    /\ (mpc = "done" /\ mresult # "Ok") => config_writes = 0

\* A step that touches the configuration, in memory or in the file, is the
\* one step that sets the current colour to the chosen one and writes the
\* file, taken with the list gone through.
PersistStep ==
    (main_config' # main_config \/ stored_config' # stored_config
        \/ config_writes' # config_writes) =>
        /\ Processed
        /\ mpc = "loop"
        /\ main_config' = [main_config EXCEPT !.current_color = main_color]
        /\ stored_config' = main_config'
        /\ config_writes' = config_writes + 1
        /\ mpc' = "done"

\* C32: in one run the current colour is set once and the configuration
\* file written once, both after every target of the list has been gone
\* through; nothing is written between two targets, and a run that ends
\* before the end of the list writes no configuration.
C32_PersistOnceAtEnd == [](PersistedSoFar) /\ [][PersistStep]_vars

\* A run over two targets that returned Ok: the stored current colour is
\* the chosen one, which differs from the one the run was started with, and
\* the first target was recoloured.
C32_Witness ==
    /\ mpc = "done"
    /\ mresult = "Ok"
    /\ config_writes = 1
    /\ Len(main_config.target_files) = 2
    /\ stored_config.current_color = StrB
    /\ main_config.target_files[1] = NameA
    /\ disk[NameA] # PaletteFile(<<ColorA, ColorB>>)
    /\ Len(disk[NameA]) = Len(PaletteFile(<<ColorA, ColorB>>))

====
